---- MODULE Spec2Model ----
(***************************************************************************)
(* File-integrity monitor (fim/): the watchdog event handler that turns    *)
(* create/modify/delete/move notifications into rows of the SQLite events  *)
(* table, the latest-hash query it classifies with, and the best-effort    *)
(* MongoDB replication of every committed row.                             *)
(***************************************************************************)
EXTENDS Integers, Sequences, FiniteSets, TLC

\* Python None / SQL NULL.
Null == "None"

\* ------------------------------------------------------------------ bounds
\* Rows the events table may hold.
MaxLog == 3
\* Last wall-clock second of a run (timestamps are 0..MaxTime).
MaxTime == 1
\* Classifications recorded by the scenario specification.
MaxHist == 3
\* Rows the table may hold in the specification of all paths.
MaxFilterLog == 3
\* Rows the table may hold in the specification with a remote store.
MaxSyncLog == 2
\* Handshakes after which the status page is no longer asked.
MaxHandshakes == 2
\* Rows the table may hold in the specification of moves.
MaxMoveLog == 3
\* Rows the table may hold in the specification of start() and stop().
MaxStopLog == 1
\* Rows the table may hold in the specification of store failures.
MaxStoreLog == 2
\* Rows the table may hold in the specification of the connection.
MaxConnLog == 2
\* Rows the table may hold in the specification of two runs.
MaxPairLog == 2
\* Greatest LIMIT asked of the event queries (the least is -1).
MaxLimit == 1

\* ------------------------------------------------------------------- paths
\* A path is the sequence of its characters.  Watchdog reports paths below the
\* absolute watch directory, here "/".
GoodPaths ==
    { <<"/", "a">>, <<"/", "b">> }

TempPaths ==
    { <<"/", "d", "~">>,
      <<"/", ".", "h">>,
      <<"/", "s", ".", "s", "w", "p">>,
      <<"/", "s", ".", "s", "w", "o">>,
      <<"/", "m", ".", "p", "y", "c">>,
      <<"/", "m", ".", "p", "y", "o">>,
      <<"/", "_", "_", "p", "y", "c", "a", "c", "h", "e", "_", "_", "/", "c">> }

Paths == GoodPaths \cup TempPaths

NoPath == <<>>

\* str.startswith / str.endswith / the `in` operator on strings.
StartsWith(s, pre) ==
    /\ Len(s) >= Len(pre)
    /\ SubSeq(s, 1, Len(pre)) = pre

EndsWith(s, suf) ==
    /\ Len(s) >= Len(suf)
    /\ SubSeq(s, Len(s) - Len(suf) + 1, Len(s)) = suf

Contains(s, sub) ==
    \E i \in 1..(Len(s) + 1) :
        /\ i + Len(sub) - 1 <= Len(s)
        /\ SubSeq(s, i, i + Len(sub) - 1) = sub

\* os.path.basename: what follows the last "/".
Basename(path) ==
    LET slashes == { i \in 1..Len(path) : path[i] = "/" }
        lastSlash == IF slashes = {} THEN 0
                     ELSE CHOOSE i \in slashes : \A j \in slashes : j <= i
    IN  SubSeq(path, lastSlash + 1, Len(path))

\* os.path.abspath on a path that is already absolute and normalised.
CwdPath == <<"/", "w">>

AbsPath(path) ==
    IF Len(path) > 0 /\ path[1] = "/" THEN path
    ELSE CwdPath \o <<"/">> \o path

\* is_temp_file without the two bytecode suffixes.
IsTempFileNoPyc(path) ==
    LET filename == Basename(path)
    IN  \/ EndsWith(filename, <<"~">>)
        \/ StartsWith(filename, <<".">>)
        \/ EndsWith(filename, <<".", "s", "w", "p">>)
        \/ EndsWith(filename, <<".", "s", "w", "o">>)
        \/ Contains(path, <<"_", "_", "p", "y", "c", "a", "c", "h", "e", "_", "_">>)

is_temp_file(path) ==
    LET filename == Basename(path)
    IN  \/ EndsWith(filename, <<"~">>)
        \/ StartsWith(filename, <<".">>)
        \/ EndsWith(filename, <<".", "s", "w", "p">>)
        \/ EndsWith(filename, <<".", "s", "w", "o">>)
        \/ EndsWith(filename, <<".", "p", "y", "c">>)
        \/ EndsWith(filename, <<".", "p", "y", "o">>)
        \/ Contains(path, <<"_", "_", "p", "y", "c", "a", "c", "h", "e", "_", "_">>)

\* ----------------------------------------------------------------- hashing
\* File contents a notification may find, and their SHA-256 digests.
Contents == { "hello", "world" }

Sha256 == [ c \in Contents |-> IF c = "hello" THEN "2cf24d" ELSE "486ea4" ]

Hashes == { Sha256[c] : c \in Contents }

\* What the handler finds on disk: is the path a regular file, and the bytes a
\* read returns (Null when open/read raises or the file has vanished).
FileObs ==
    { [isfile |-> FALSE, content |-> Null],
      [isfile |-> TRUE, content |-> Null] }
    \cup { [isfile |-> TRUE, content |-> c] : c \in Contents }

compute_hash(f) ==
    IF ~f.isfile THEN Null
    ELSE IF f.content = Null THEN Null
    ELSE Sha256[f.content]

\* os.stat results get_file_metadata may meet (ok FALSE: stat raises OSError).
Stats ==
    { [ok |-> FALSE, st_size |-> 0, st_mtime |-> 0, st_ctime |-> 0, writable |-> FALSE] }
    \cup { [ok |-> TRUE, st_size |-> 5, st_mtime |-> 0, st_ctime |-> 0, writable |-> w] :
             w \in BOOLEAN }

\* The empty dictionary.
NoMetadata == [empty |-> TRUE]

get_file_metadata(s) ==
    IF ~s.ok THEN NoMetadata
    ELSE [size |-> s.st_size, mtime |-> s.st_mtime, ctime |-> s.st_ctime,
          readonly |-> ~s.writable]

\* SHA-256 of json.dumps(state_obj, sort_keys=True, separators=(",", ":")), by
\* its first hex digits like Sha256.
StateSha256(state_obj) ==
    LET k == << state_obj.path, state_obj.content_hash, state_obj.metadata >>
    IN  CASE k = << <<"/", "a">>, "2cf24d", NoMetadata >> -> "debc71"
      [] k = << <<"/", "a">>, "2cf24d", [size |-> 5, mtime |-> 0, ctime |-> 0, readonly |-> FALSE] >> -> "d6a094"
      [] k = << <<"/", "a">>, "2cf24d", [size |-> 5, mtime |-> 0, ctime |-> 0, readonly |-> TRUE] >> -> "37842a"
      [] k = << <<"/", "a">>, "486ea4", NoMetadata >> -> "9f0851"
      [] k = << <<"/", "a">>, "486ea4", [size |-> 5, mtime |-> 0, ctime |-> 0, readonly |-> FALSE] >> -> "ac458f"
      [] k = << <<"/", "a">>, "486ea4", [size |-> 5, mtime |-> 0, ctime |-> 0, readonly |-> TRUE] >> -> "079ecc"
      [] k = << <<"/", "b">>, "2cf24d", NoMetadata >> -> "a3e018"
      [] k = << <<"/", "b">>, "2cf24d", [size |-> 5, mtime |-> 0, ctime |-> 0, readonly |-> FALSE] >> -> "ab5bff"
      [] k = << <<"/", "b">>, "2cf24d", [size |-> 5, mtime |-> 0, ctime |-> 0, readonly |-> TRUE] >> -> "4a11ac"
      [] k = << <<"/", "b">>, "486ea4", NoMetadata >> -> "b50d31"
      [] k = << <<"/", "b">>, "486ea4", [size |-> 5, mtime |-> 0, ctime |-> 0, readonly |-> FALSE] >> -> "d076b2"
      [] k = << <<"/", "b">>, "486ea4", [size |-> 5, mtime |-> 0, ctime |-> 0, readonly |-> TRUE] >> -> "baaca6"

\* hash_state: Null for None, else the dictionary with the state digest.
hash_state(path, f, s) ==
    IF ~f.isfile THEN Null
    ELSE LET meta == get_file_metadata(s)
             content_hash == compute_hash(f)
             state_obj == [path |-> AbsPath(path), content_hash |-> content_hash,
                           metadata |-> meta]
         IN  IF content_hash = Null THEN Null
             ELSE [path |-> state_obj.path, content_hash |-> content_hash,
                   metadata |-> meta, state_hash |-> StateSha256(state_obj)]

\* ---------------------------------------------------------------- the state
VARIABLES
    log,               \* rows of the events table, in id order
    now,               \* wall clock, in seconds
    MONGO_URI,         \* config.MONGO_URI ("" when not configured)
    mongo_client,      \* mongo_client._mongo_client
    mongo_collection,  \* mongo_client._mongo_collection
    remote,            \* documents of the remote collection
    last,              \* the notification handled last
    prevLen,           \* rows of the events table before that notification
    ops,               \* I/O of that notification, in order, with results
    hist,              \* classifications recorded by the scenario specification
    handshakes,        \* MongoClient handshakes attempted by this process
    twin,              \* a second run on the same inputs, its remote store down
    watcher,           \* the DirectoryWatcher, its observer thread and its callers
    frames,            \* the call each thread is in the middle of, statement by statement
    agent              \* the reference agent: its two JSON files and the documents it sent

vars == <<log, now, MONGO_URI, mongo_client, mongo_collection, remote,
          last, prevLen, ops, hist, handshakes, twin, agent, watcher, frames>>

ENDPOINT_NAME == "replit_agent"
Hostname == "host"
Username == "user"

\* ---------------------------------------------------------------- models.py
\* Rows of path with a non-null hash_after (the WHERE clause).
HashedRows(rows, file_path) ==
    { i \in 1..Len(rows) :
        /\ rows[i].file_path = file_path
        /\ rows[i].hash_after # Null }

\* get_latest_hash reading only the rows already replicated.
GetLatestHashSynced(rows, file_path) ==
    LET cand == { i \in HashedRows(rows, file_path) : rows[i].synced_to_mongo = 1 }
        top  == { i \in cand : \A j \in cand : rows[j].timestamp <= rows[i].timestamp }
    IN  IF cand = {} THEN { Null } ELSE { rows[i].hash_after : i \in top }

\* get_latest_hash: ORDER BY timestamp DESC LIMIT 1 names no order among rows of
\* one timestamp, so every row of the greatest timestamp is a possible answer.
\* The set of values the call may return.
get_latest_hash(rows, file_path) ==
    LET cand == HashedRows(rows, file_path)
        top  == { i \in cand : \A j \in cand : rows[j].timestamp <= rows[i].timestamp }
    IN  IF cand = {} THEN { Null } ELSE { rows[i].hash_after : i \in top }

\* The dictionary the event queries build from a row (synced_to_mongo and the two
\* digest columns are not in it).
Event(row) ==
    [id |-> row.id, event_type |-> row.event_type, file_path |-> row.file_path,
     timestamp |-> row.timestamp, endpoint |-> row.endpoint,
     hostname |-> row.hostname, username |-> row.username,
     hash_before |-> row.hash_before, hash_after |-> row.hash_after]

\* ORDER BY timestamp DESC LIMIT limit over the rows M: the row sequences the
\* statement may return.  Rows of one timestamp come in any order, and of the
\* rows tied at the cut any may be the ones returned.  A negative LIMIT is no
\* limit in SQLite.
OrderByTimestampDesc(rows, M, limit) ==
    LET n == IF limit < 0 \/ limit > Cardinality(M) THEN Cardinality(M) ELSE limit
    IN  { q \in [1..n -> M] :
            /\ \A i, j \in 1..n : i < j =>
                  /\ q[i] # q[j]
                  /\ rows[q[i]].timestamp >= rows[q[j]].timestamp
            /\ \A k \in M : (\A i \in 1..n : q[i] # k) =>
                  \A i \in 1..n : rows[k].timestamp <= rows[q[i]].timestamp }

\* The text of the columns a search looks at.  The timestamp's text is its
\* seconds field.
Digits == <<"0", "1", "2", "3", "4", "5", "6", "7", "8", "9">>

TimestampText(t) == << Digits[((t \div 10) % 10) + 1], Digits[(t % 10) + 1] >>

TextOf ==
    [created |-> <<"c", "r", "e", "a", "t", "e", "d">>,
     modified |-> <<"m", "o", "d", "i", "f", "i", "e", "d">>,
     deleted |-> <<"d", "e", "l", "e", "t", "e", "d">>,
     moved |-> <<"m", "o", "v", "e", "d">>,
     replit_agent |-> <<"r", "e", "p", "l", "i", "t", "_", "a", "g", "e", "n", "t">>,
     host |-> <<"h", "o", "s", "t">>,
     user |-> <<"u", "s", "e", "r">>]

LikeColumns == { "timestamp", "event_type", "file_path", "endpoint", "hostname", "username" }

Text(row, col) ==
    CASE col = "file_path" -> row.file_path
      [] col = "timestamp" -> TimestampText(row.timestamp)
      [] OTHER -> TextOf[row[col]]

\* str.strip() on spaces.
RECURSIVE Strip(_)
Strip(s) ==
    IF s = <<>> THEN s
    ELSE IF Head(s) = " " THEN Strip(Tail(s))
    ELSE IF s[Len(s)] = " " THEN Strip(SubSeq(s, 1, Len(s) - 1))
    ELSE s

\* LIKE '%term%': a substring match that ignores the case of ASCII letters.
Lower(c) == IF c = "A" THEN "a" ELSE IF c = "D" THEN "d" ELSE c

LowerSeq(s) == [i \in 1..Len(s) |-> Lower(s[i])]

Like(text, term) == Contains(LowerSeq(text), LowerSeq(term))

\* The WHERE clause get_latest_events_filtered builds.  event_types = {} and
\* search_columns = {} stand for None or an empty list, search_query = <<>> for
\* None or "".
Matches(row, event_types, search_query, search_columns) ==
    /\ event_types # {} => row.event_type \in event_types
    /\ Strip(search_query) # <<>> =>
          IF search_columns # {}
          THEN LET cols == search_columns \cap LikeColumns
               IN  cols # {} => \E col \in cols : Like(Text(row, col), Strip(search_query))
          ELSE \E col \in LikeColumns : Like(Text(row, col), Strip(search_query))

\* get_latest_events_filtered: the lists the call may return.
get_latest_events_filtered(rows, limit, event_types, search_query, search_columns) ==
    LET M == { i \in 1..Len(rows) :
                 Matches(rows[i], event_types, search_query, search_columns) }
    IN  { [i \in 1..Len(q) |-> Event(rows[q[i]])] :
            q \in OrderByTimestampDesc(rows, M, limit) }

\* get_latest_events: the lists the call may return (event_type Null for None).
get_latest_events(rows, limit, event_type) ==
    LET M == { i \in 1..Len(rows) :
                 (event_type # Null /\ event_type # "" /\ event_type # "all")
                     => rows[i].event_type = event_type }
    IN  { [i \in 1..Len(q) |-> Event(rows[q[i]])] :
            q \in OrderByTimestampDesc(rows, M, limit) }

\* ---------------------------------------------------------- mongo_client.py
RemoteOutcomes == { "ok", "handshake_fail", "insert_fail" }

\* A handler's working state: the tables and globals it reads and writes.
\* get_mongo_connection: st after the call; the value returned is st.mongo_collection.
get_mongo_connection(st, r) ==
    IF st.MONGO_URI = "" THEN [st EXCEPT !.conn = Null]
    ELSE IF st.mongo_client = Null
    THEN IF r = "handshake_fail"
         THEN [st EXCEPT !.mongo_client = Null, !.mongo_collection = Null,
                         !.conn = Null, !.handshakes = @ + 1]
         ELSE [st EXCEPT !.mongo_client = "client", !.mongo_collection = "collection",
                         !.conn = "collection", !.handshakes = @ + 1]
    ELSE [st EXCEPT !.conn = st.mongo_collection]

\* send_event_to_mongo inserting the document a second time after the first
\* insert_one succeeded.
SendEventTwice(st, event, r) ==
    LET c == get_mongo_connection(st, r)
    IN  IF c.conn = Null THEN [c EXCEPT !.sent = FALSE]
        ELSE IF r = "insert_fail" THEN [c EXCEPT !.sent = FALSE]
        ELSE [c EXCEPT !.remote = Append(Append(c.remote, event), event), !.sent = TRUE]

\* send_event_to_mongo: st after the call; st.sent is the value returned.
send_event_to_mongo(st, event, r) ==
    LET c == get_mongo_connection(st, r)
    IN  IF c.conn = Null THEN [c EXCEPT !.sent = FALSE]
        ELSE IF r = "insert_fail" THEN [c EXCEPT !.sent = FALSE]
        ELSE [c EXCEPT !.remote = Append(c.remote, event), !.sent = TRUE]

Op(name, res) == [op |-> name, res |-> res]

AGENT_ID == "agent"

\* The document insert_event builds for the remote store (agent_id is added by
\* send_event_to_mongo before the insert).
MongoEvent(data) ==
    [timestamp |-> data.timestamp, event_type |-> data.event_type,
     path |-> data.file_path, state_hash |-> data.state_hash,
     content_hash |-> IF data.content_hash # Null THEN data.content_hash
                      ELSE data.hash_after,
     hash_before |-> data.hash_before, hash_after |-> data.hash_after,
     endpoint |-> data.endpoint, hostname |-> data.hostname,
     username |-> data.username, agent_id |-> AGENT_ID]

Did(st, name, res) == [st EXCEPT !.ops = Append(st.ops, Op(name, res))]

\* sqlite3.OperationalError leaving the function that was running.
Raise(st, where) == Did([st EXCEPT !.raised = TRUE], "raise", where)

\* An UPDATE that flips the flag of the row instead of setting it.
MarkSyncedFlip(rows, event_id) ==
    [i \in 1..Len(rows) |->
        IF rows[i].id = event_id
        THEN [rows[i] EXCEPT !.synced_to_mongo = 1 - @]
        ELSE rows[i]]

\* UPDATE events SET synced_to_mongo = 1 WHERE id = ?
mark_synced(rows, event_id) ==
    [i \in 1..Len(rows) |->
        IF rows[i].id = event_id
        THEN [rows[i] EXCEPT !.synced_to_mongo = 1]
        ELSE rows[i]]

\* insert_event whose UPDATE after a successful send has no WHERE clause: every
\* row is marked synced.
InsertEventMarkAll(st, data, r) ==
    LET event_id == Len(st.log) + 1
        row == [id |-> event_id, synced_to_mongo |-> 0] @@ data
        s1 == Did([st EXCEPT !.log = Append(st.log, row)], "commit", event_id)
        s0 == send_event_to_mongo(s1, MongoEvent(data), r)
        s2 == Did(s0, "send", s0.sent)
        s3 == IF s2.sent
              THEN Did([s2 EXCEPT !.log = [i \in 1..Len(s2.log) |->
                                             [s2.log[i] EXCEPT !.synced_to_mongo = 1]]],
                       "mark_synced", event_id)
              ELSE s2
    IN  Did(s3, "return", event_id)

\* insert_event sending first and committing only what was sent.
InsertEventSendFirst(st, data, r) ==
    LET event_id == Len(st.log) + 1
        row == [id |-> event_id, synced_to_mongo |-> 1] @@ data
        s0 == send_event_to_mongo(st, MongoEvent(data), r)
        s1 == Did(s0, "send", s0.sent)
    IN  IF s1.sent
        THEN Did(Did([s1 EXCEPT !.log = Append(s1.log, row)], "commit", event_id),
                 "return", event_id)
        ELSE Did(s1, "return", 0)

\* insert_event: INSERT and commit, then one send, then the synced mark; the id of
\* the new row is returned.
\* With the store unavailable sqlite3.connect / execute raises before anything is
\* written.
insert_event(st, data, r) ==
    LET event_id == Len(st.log) + 1
        row == [id |-> event_id, synced_to_mongo |-> 0] @@ data
        s1 == Did([st EXCEPT !.log = Append(st.log, row)], "commit", event_id)
        s0 == send_event_to_mongo(s1, MongoEvent(data), r)
        s2 == Did(s0, "send", s0.sent)
        s3 == IF s2.sent
              THEN Did([s2 EXCEPT !.log = mark_synced(s2.log, event_id)],
                       "mark_synced", event_id)
              ELSE s2
    IN  IF st.db # "ok" THEN Raise(st, "insert_event")
        ELSE Did(s3, "return", event_id)

\* --------------------------------------------------------------- watcher.py
\* The scenario record of one classification that passed the filter.
Record(st, event_type, file_path, f) ==
    IF st.hist.on
    THEN [st EXCEPT !.hist.seq = Append(@, [event_type |-> event_type,
                                            file_path |-> file_path,
                                            isfile |-> f.isfile,
                                            hash |-> compute_hash(f)])]
    ELSE st

\* The row with hash_before and hash_after exchanged.
EmitHashesSwapped(st, event_type, file_path, hash_before, hash_after, r) ==
    LET event_data == [event_type |-> event_type, file_path |-> file_path,
                       timestamp |-> st.now, endpoint |-> ENDPOINT_NAME,
                       hostname |-> Hostname, username |-> Username,
                       hash_before |-> hash_after, hash_after |-> hash_before,
                       state_hash |-> Null, content_hash |-> Null]
    IN  Did(insert_event(st, event_data, r), "print_alert", event_type)

\* Lines 72-92 of _process_event: the row, insert_event, then the console alert.
Emit(st, event_type, file_path, hash_before, hash_after, r) ==
    LET event_data == [event_type |-> event_type, file_path |-> file_path,
                       timestamp |-> st.now, endpoint |-> ENDPOINT_NAME,
                       hostname |-> Hostname, username |-> Username,
                       hash_before |-> hash_before, hash_after |-> hash_after,
                       state_hash |-> Null, content_hash |-> Null]
        s1 == insert_event(st, event_data, r)
    IN  IF s1.raised THEN s1 ELSE Did(s1, "print_alert", event_type)

NoFile == [isfile |-> FALSE, content |-> Null]

\* _process_event without the test hash_before == hash_after of the modified
\* branch.
ProcessEventNoSuppression(st, event_type, src_path, is_directory, f, hb, r) ==
    IF is_directory THEN st
    ELSE IF is_temp_file(src_path) THEN st
    ELSE
      LET file_path == AbsPath(src_path)
      IN  CASE event_type = "created" ->
                 LET s1 == Did(Record(st, event_type, file_path, f), "isfile", f.isfile)
                 IN  IF ~f.isfile THEN s1
                     ELSE Emit(Did(s1, "compute_hash", compute_hash(f)),
                               event_type, file_path, Null, compute_hash(f), r)
            [] event_type = "modified" ->
                 LET s1 == Did(Record(st, event_type, file_path, f), "isfile", f.isfile)
                     s2 == Did(Did(s1, "get_latest_hash", hb),
                               "compute_hash", compute_hash(f))
                 IN  IF ~f.isfile THEN s1
                     ELSE IF st.db # "ok" THEN Raise(s1, "get_latest_hash")
                     ELSE Emit(s2, event_type, file_path, hb, compute_hash(f), r)
            [] event_type = "deleted" ->
                 IF st.db # "ok"
                 THEN Raise(Record(st, event_type, file_path, NoFile), "get_latest_hash")
                 ELSE Emit(Did(Record(st, event_type, file_path, NoFile),
                               "get_latest_hash", hb),
                           event_type, file_path, hb, Null, r)
            [] OTHER ->
                 Emit(st, event_type, file_path, Null, Null, r)

\* _process_event whose created branch compares with the latest hash as the
\* modified branch does.
ProcessEventCreateCompares(st, event_type, src_path, is_directory, f, hb, r) ==
    IF is_directory THEN st
    ELSE IF is_temp_file(src_path) THEN st
    ELSE
      LET file_path == AbsPath(src_path)
      IN  CASE event_type = "created" ->
                 LET s1 == Did(Record(st, event_type, file_path, f), "isfile", f.isfile)
                 IN  IF ~f.isfile THEN s1
                     ELSE IF compute_hash(f) \in get_latest_hash(st.log, file_path)
                     THEN Did(s1, "compute_hash", compute_hash(f))
                     ELSE Emit(Did(s1, "compute_hash", compute_hash(f)),
                               event_type, file_path, Null, compute_hash(f), r)
            [] event_type = "modified" ->
                 LET s1 == Did(Record(st, event_type, file_path, f), "isfile", f.isfile)
                     s2 == Did(Did(s1, "get_latest_hash", hb),
                               "compute_hash", compute_hash(f))
                 IN  IF ~f.isfile THEN s1
                     ELSE IF st.db # "ok" THEN Raise(s1, "get_latest_hash")
                     ELSE IF hb = compute_hash(f) THEN s2
                     ELSE Emit(s2, event_type, file_path, hb, compute_hash(f), r)
            [] event_type = "deleted" ->
                 IF st.db # "ok"
                 THEN Raise(Record(st, event_type, file_path, NoFile), "get_latest_hash")
                 ELSE Emit(Did(Record(st, event_type, file_path, NoFile),
                               "get_latest_hash", hb),
                           event_type, file_path, hb, Null, r)
            [] OTHER ->
                 Emit(st, event_type, file_path, Null, Null, r)

\* _process_event recording a deletion only for a path whose newest row is not
\* itself a deletion.
ProcessEventDeleteOnce(st, event_type, src_path, is_directory, f, hb, r) ==
    IF is_directory THEN st
    ELSE IF is_temp_file(src_path) THEN st
    ELSE
      LET file_path == AbsPath(src_path)
          own == { i \in 1..Len(st.log) : st.log[i].file_path = file_path }
      IN  CASE event_type = "created" ->
                 LET s1 == Did(Record(st, event_type, file_path, f), "isfile", f.isfile)
                 IN  IF ~f.isfile THEN s1
                     ELSE Emit(Did(s1, "compute_hash", compute_hash(f)),
                               event_type, file_path, Null, compute_hash(f), r)
            [] event_type = "modified" ->
                 LET s1 == Did(Record(st, event_type, file_path, f), "isfile", f.isfile)
                     s2 == Did(Did(s1, "get_latest_hash", hb),
                               "compute_hash", compute_hash(f))
                 IN  IF ~f.isfile THEN s1
                     ELSE IF st.db # "ok" THEN Raise(s1, "get_latest_hash")
                     ELSE IF hb = compute_hash(f) THEN s2
                     ELSE Emit(s2, event_type, file_path, hb, compute_hash(f), r)
            [] event_type = "deleted" ->
                 IF st.db # "ok"
                 THEN Raise(Record(st, event_type, file_path, NoFile), "get_latest_hash")
                 ELSE IF \E i \in own : /\ \A j \in own : j <= i
                                        /\ st.log[i].event_type = "deleted"
                 THEN Did(Record(st, event_type, file_path, NoFile), "get_latest_hash", hb)
                 ELSE Emit(Did(Record(st, event_type, file_path, NoFile),
                               "get_latest_hash", hb),
                           event_type, file_path, hb, Null, r)
            [] OTHER ->
                 Emit(st, event_type, file_path, Null, Null, r)

\* FIMEventHandler._process_event.  f is what the path holds on disk, hb the value
\* get_latest_hash returns if it is called, r the remote store's behaviour.
ProcessEvent(st, event_type, src_path, is_directory, f, hb, r) ==
    IF is_directory THEN st
    ELSE IF is_temp_file(src_path) THEN st
    ELSE
      LET file_path == AbsPath(src_path)
      IN  CASE event_type = "created" ->
                 LET s1 == Did(Record(st, event_type, file_path, f), "isfile", f.isfile)
                 IN  IF ~f.isfile THEN s1
                     ELSE Emit(Did(s1, "compute_hash", compute_hash(f)),
                               event_type, file_path, Null, compute_hash(f), r)
            [] event_type = "modified" ->
                 LET s1 == Did(Record(st, event_type, file_path, f), "isfile", f.isfile)
                     s2 == Did(Did(s1, "get_latest_hash", hb),
                               "compute_hash", compute_hash(f))
                 IN  IF ~f.isfile THEN s1
                     ELSE IF st.db # "ok" THEN Raise(s1, "get_latest_hash")
                     ELSE IF hb = compute_hash(f) THEN s2
                     ELSE Emit(s2, event_type, file_path, hb, compute_hash(f), r)
            [] event_type = "deleted" ->
                 IF st.db # "ok"
                 THEN Raise(Record(st, event_type, file_path, NoFile), "get_latest_hash")
                 ELSE Emit(Did(Record(st, event_type, file_path, NoFile),
                               "get_latest_hash", hb),
                           event_type, file_path, hb, Null, r)
            [] OTHER ->
                 Emit(st, event_type, file_path, Null, Null, r)

\* The working state a handler starts from.
Start ==
    [log |-> log, now |-> now, MONGO_URI |-> MONGO_URI,
     mongo_client |-> mongo_client, mongo_collection |-> mongo_collection,
     remote |-> remote, hist |-> hist, handshakes |-> handshakes,
     ops |-> <<>>, conn |-> Null, sent |-> FALSE, db |-> "ok", raised |-> FALSE]

\* A callback runs on the observer thread, while that thread lives.  Nothing in
\* watcher.py catches an exception of the store, so it leaves the callback and
\* ends the thread that called it.  late records a callback that ran after stop()
\* had returned.
Dispatched(st) ==
    /\ watcher.thread \in { "alive", "stopping" }
    /\ watcher' = [watcher EXCEPT !.thread = IF st.raised THEN "dead" ELSE @,
                                  !.late = @ \/ watcher.stop_pc = "returned"]

\* The state a handler leaves.
Leave(st, kind, src, dst, is_directory) ==
    /\ log' = st.log
    /\ mongo_client' = st.mongo_client
    /\ mongo_collection' = st.mongo_collection
    /\ remote' = st.remote
    /\ hist' = st.hist
    /\ handshakes' = st.handshakes
    /\ ops' = st.ops
    /\ prevLen' = Len(log)
    /\ last' = [kind |-> kind, src |-> src, dst |-> dst, is_directory |-> is_directory]
    /\ UNCHANGED <<now, MONGO_URI>>

Finish(st, kind, src, dst, is_directory) ==
    /\ Dispatched(st)
    /\ Leave(st, kind, src, dst, is_directory)
    /\ twin' = twin
    /\ agent' = agent
    /\ frames' = frames

\* The inputs a handler can consume: the remote store's behaviours that differ for
\* this state, and the file observations of a path the handler looks at.
Outcomes ==
    IF MONGO_URI = "" THEN { "ok" }
    ELSE IF mongo_client = Null THEN RemoteOutcomes
    ELSE { "ok", "insert_fail" }

Accepted(p, d) == ~d /\ ~is_temp_file(p)

ObsOf(p, d) == IF Accepted(p, d) THEN FileObs ELSE { NoFile }

ReadsOf(p, d) == IF Accepted(p, d) THEN get_latest_hash(log, AbsPath(p)) ELSE { Null }

OutcomesOf(p, d) == IF Accepted(p, d) THEN Outcomes ELSE { "ok" }

on_created(p, d) ==
    \E f \in ObsOf(p, d), r \in OutcomesOf(p, d) :
          Finish(ProcessEvent(Start, "created", p, d, f, Null, r), "created", p, NoPath, d)

on_modified(p, d) ==
    \E f \in ObsOf(p, d), r \in OutcomesOf(p, d), hb \in ReadsOf(p, d) :
          Finish(ProcessEvent(Start, "modified", p, d, f, hb, r), "modified", p, NoPath, d)

on_deleted(p, d) ==
    \E r \in OutcomesOf(p, d), hb \in ReadsOf(p, d) :
          Finish(ProcessEvent(Start, "deleted", p, d, NoFile, hb, r), "deleted", p, NoPath, d)

\* on_moved treating the move as one event: dropped when either side is filtered.
MovedResultPaired(st, src, dst, d, f, hb, r1, r2) ==
    IF d THEN st
    ELSE IF is_temp_file(src) \/ is_temp_file(dst) THEN st
    ELSE LET s1 == ProcessEvent(st, "deleted", src, FALSE, NoFile, hb, r1)
         IN  IF s1.raised THEN s1
             ELSE ProcessEvent(s1, "created", dst, FALSE, f, Null, r2)

\* on_moved handling the destination before the source.
MovedResultCreateFirst(st, src, dst, d, f, hb, r1, r2) ==
    IF d THEN st
    ELSE LET s1 == IF ~is_temp_file(dst)
                   THEN ProcessEvent(st, "created", dst, FALSE, f, Null, r2)
                   ELSE st
         IN  IF ~is_temp_file(src)
             THEN ProcessEvent(s1, "deleted", src, FALSE, NoFile, hb, r1)
             ELSE s1

\* on_moved: a delete at the source, then a create at the destination (not
\* reached when the delete raised).
MovedResult(st, src, dst, d, f, hb, r1, r2) ==
    IF d THEN st
    ELSE LET s1 == IF ~is_temp_file(src)
                   THEN ProcessEvent(st, "deleted", src, FALSE, NoFile, hb, r1)
                   ELSE st
         IN  IF s1.raised THEN s1
             ELSE IF ~is_temp_file(dst)
             THEN ProcessEvent(s1, "created", dst, FALSE, f, Null, r2)
             ELSE s1

on_moved(src, dst, d) ==
    /\ src # dst
    /\ \E f \in ObsOf(dst, d), hb \in ReadsOf(src, d),
          r1 \in OutcomesOf(src, d), r2 \in OutcomesOf(dst, d) :
          Finish(MovedResult(Start, src, dst, d, f, hb, r1, r2), "moved", src, dst, d)

\* is_mongo_connected, as the web pages call it (index and /api/status): one
\* get_mongo_connection, the answer is whether it returned a collection.
is_mongo_connected ==
    /\ handshakes < MaxHandshakes
    /\ \E r \in (IF MONGO_URI # "" /\ mongo_client = Null
                 THEN { "ok", "handshake_fail" } ELSE { "ok" }) :
          LET c == get_mongo_connection(Start, r)
          IN  /\ Leave(Did(c, "is_mongo_connected", c.conn # Null),
                       "status", NoPath, NoPath, FALSE)
              /\ UNCHANGED <<twin, agent, watcher, frames>>

\* A second of wall-clock time passes.
Tick ==
    /\ now < MaxTime
    /\ now' = now + 1
    /\ UNCHANGED <<log, MONGO_URI, mongo_client, mongo_collection, remote,
                   last, prevLen, ops, hist, handshakes, twin, agent, watcher, frames>>

NoTwin == [on |-> FALSE]

\* The reference agent has not run: neither of its files exists.
NoAgent ==
    [hashes |-> [exists |-> FALSE, json |-> <<>>],
     history |-> [exists |-> FALSE, json |-> <<>>], sent |-> <<>>]

\* No thread is inside a call.
NoFrames == [observer |-> [pc |-> "idle"], dashboard |-> [pc |-> "idle"]]

\* The DirectoryWatcher once start() has returned: the observer thread delivers
\* notifications, stop() has not been called.
Watching ==
    [observer |-> "Observer", running |-> TRUE, thread |-> "alive",
     start_pc |-> "done", stop_pc |-> "idle", late |-> FALSE]

NoLast == [kind |-> "none", src |-> NoPath, dst |-> NoPath, is_directory |-> FALSE]

\* main(): init_db on an empty table, then one get_mongo_connection before the
\* watcher starts.
InitCommon ==
    /\ log = <<>>
    /\ now = 0
    /\ \E r \in { "ok", "handshake_fail" } :
          LET c == get_mongo_connection(
                       [MONGO_URI |-> MONGO_URI, mongo_client |-> Null,
                        mongo_collection |-> Null, conn |-> Null,
                        handshakes |-> 0], r)
          IN  /\ mongo_client = c.mongo_client
              /\ mongo_collection = c.mongo_collection
              /\ handshakes = c.handshakes
    /\ remote = <<>>
    /\ last = NoLast
    /\ prevLen = 0
    /\ ops = <<>>

\* The watcher with the default configuration (no MONGODB_URI) on the unfiltered
\* files.  A notification is taken while the table has room for the rows it can
\* append.
Init ==
    /\ MONGO_URI = ""
    /\ InitCommon
    /\ hist = [on |-> FALSE, seq |-> <<>>]
    /\ twin = NoTwin
    /\ watcher = Watching
    /\ agent = NoAgent
    /\ frames = NoFrames

Next ==
    \/ /\ Len(log) + 1 <= MaxLog
       /\ \/ \E p \in GoodPaths : on_created(p, FALSE)
          \/ \E p \in GoodPaths : on_modified(p, FALSE)
          \/ \E p \in GoodPaths : on_deleted(p, FALSE)
    \/ /\ Len(log) + 2 <= MaxLog
       /\ \E src \in GoodPaths, dst \in GoodPaths : on_moved(src, dst, FALSE)
    \/ Tick

Spec == Init /\ [][Next]_vars

\* The same watcher within one second on one unfiltered path and every editor and
\* bytecode artefact, files and directories.
FilterPaths == TempPaths \cup { <<"/", "a">> }

NextFilter ==
    \/ /\ Len(log) + 1 <= MaxFilterLog
       /\ \/ \E p \in FilterPaths, d \in BOOLEAN : on_created(p, d)
          \/ \E p \in FilterPaths, d \in BOOLEAN : on_modified(p, d)
          \/ \E p \in FilterPaths, d \in BOOLEAN : on_deleted(p, d)
    \/ /\ Len(log) + 2 <= MaxFilterLog
       /\ \E src \in FilterPaths, dst \in FilterPaths, d \in BOOLEAN : on_moved(src, dst, d)

SpecFilter == Init /\ [][NextFilter]_vars

\* The watcher with or without a remote store configured, on the unfiltered
\* files, within one second: every row of a path ties with the others, so
\* get_latest_hash may return the hash of any of them.
InitSync ==
    /\ MONGO_URI \in { "", "mongodb://fim" }
    /\ InitCommon
    /\ hist = [on |-> FALSE, seq |-> <<>>]
    /\ twin = NoTwin
    /\ watcher = Watching
    /\ agent = NoAgent
    /\ frames = NoFrames

NextSync ==
    \/ /\ Len(log) + 1 <= MaxSyncLog
       /\ \/ \E p \in GoodPaths : on_created(p, FALSE)
          \/ \E p \in GoodPaths : on_modified(p, FALSE)
          \/ \E p \in GoodPaths : on_deleted(p, FALSE)
    \/ /\ Len(log) + 2 <= MaxSyncLog
       /\ \E src \in GoodPaths, dst \in GoodPaths : on_moved(src, dst, FALSE)

SpecSync == InitSync /\ [][NextSync]_vars

\* The process with a remote store configured: the watcher's created and deleted
\* notifications and the web pages asking whether the store is connected.
InitConn ==
    /\ MONGO_URI = "mongodb://fim"
    /\ InitCommon
    /\ hist = [on |-> FALSE, seq |-> <<>>]
    /\ twin = NoTwin
    /\ watcher = Watching
    /\ agent = NoAgent
    /\ frames = NoFrames

NextConn ==
    \/ /\ Len(log) + 1 <= MaxConnLog
       /\ \/ \E p \in GoodPaths : on_created(p, FALSE)
          \/ \E p \in GoodPaths : on_deleted(p, FALSE)
    \/ is_mongo_connected

SpecConn == InitConn /\ [][NextConn]_vars

\* The scenario specification: file notifications on the unfiltered paths with no
\* remote store configured, every classification recorded in hist.
InitChain ==
    /\ MONGO_URI = ""
    /\ InitCommon
    /\ hist = [on |-> TRUE, seq |-> <<>>]
    /\ twin = NoTwin
    /\ watcher = Watching
    /\ agent = NoAgent
    /\ frames = NoFrames

NextChain ==
    \/ /\ Len(hist.seq) < MaxHist
       /\ \/ \E p \in GoodPaths : on_created(p, FALSE)
          \/ \E p \in GoodPaths : on_modified(p, FALSE)
          \/ \E p \in GoodPaths : on_deleted(p, FALSE)
    \/ Tick

SpecChain == InitChain /\ [][NextChain]_vars

\* The watcher with no remote store, its local store available or not while a
\* notification is handled (sqlite3 raises OperationalError on connect or execute
\* when it is not).
StoreStates == { "ok", "unavailable" }

StartWith(db) == [Start EXCEPT !.db = db]

store_created(p) ==
    \E f \in FileObs, db \in StoreStates :
        Finish(ProcessEvent(StartWith(db), "created", p, FALSE, f, Null, "ok"),
               "created", p, NoPath, FALSE)

store_modified(p) ==
    \E f \in FileObs, db \in StoreStates, hb \in ReadsOf(p, FALSE) :
        Finish(ProcessEvent(StartWith(db), "modified", p, FALSE, f, hb, "ok"),
               "modified", p, NoPath, FALSE)

store_deleted(p) ==
    \E db \in StoreStates, hb \in ReadsOf(p, FALSE) :
        Finish(ProcessEvent(StartWith(db), "deleted", p, FALSE, NoFile, hb, "ok"),
               "deleted", p, NoPath, FALSE)

store_moved(src, dst) ==
    /\ src # dst
    /\ \E f \in FileObs, db \in StoreStates, hb \in ReadsOf(src, FALSE) :
          Finish(MovedResult(StartWith(db), src, dst, FALSE, f, hb, "ok", "ok"),
                 "moved", src, dst, FALSE)

NextStore ==
    \/ /\ Len(log) + 1 <= MaxStoreLog
       /\ \/ \E p \in GoodPaths : store_created(p)
          \/ \E p \in GoodPaths : store_modified(p)
          \/ \E p \in GoodPaths : store_deleted(p)
    \/ /\ Len(log) + 2 <= MaxStoreLog
       /\ \E src \in GoodPaths, dst \in GoodPaths : store_moved(src, dst)

SpecStore == Init /\ [][NextStore]_vars

\* main(): start() runs on a background thread, stop() on the main thread; each
\* statement of the two methods is a step.  The observer thread is "new" once
\* constructed, "alive" once started, "stopping" once asked to stop, "ended" when
\* it has left its loop.
Others ==
    <<log, now, MONGO_URI, mongo_client, mongo_collection, remote, last, prevLen,
      ops, hist, handshakes, twin, agent, frames>>

start_makedirs ==
    /\ watcher.start_pc = "launched"
    /\ watcher' = [watcher EXCEPT !.start_pc = "check"]
    /\ UNCHANGED Others

start_check ==
    /\ watcher.start_pc = "check"
    /\ watcher' = [watcher EXCEPT !.start_pc = IF watcher.running THEN "done"
                                              ELSE "create"]
    /\ UNCHANGED Others

start_create ==
    /\ watcher.start_pc = "create"
    /\ watcher' = [watcher EXCEPT !.observer = "Observer", !.thread = "new",
                                  !.start_pc = "schedule"]
    /\ UNCHANGED Others

start_schedule ==
    /\ watcher.start_pc = "schedule"
    /\ watcher' = [watcher EXCEPT !.start_pc = "start"]
    /\ UNCHANGED Others

start_observer ==
    /\ watcher.start_pc = "start"
    /\ watcher' = [watcher EXCEPT !.thread = "alive", !.start_pc = "set_running"]
    /\ UNCHANGED Others

start_running ==
    /\ watcher.start_pc = "set_running"
    /\ watcher' = [watcher EXCEPT !.running = TRUE, !.start_pc = "done"]
    /\ UNCHANGED Others

\* stop(): `self.observer and self.running` reads the two attributes one after
\* the other.
stop_call ==
    /\ watcher.stop_pc = "idle"
    /\ watcher' = [watcher EXCEPT !.stop_pc = IF watcher.observer = "None"
                                             THEN "returned" ELSE "check_running"]
    /\ UNCHANGED Others

stop_check ==
    /\ watcher.stop_pc = "check_running"
    /\ watcher' = [watcher EXCEPT !.stop_pc = IF watcher.running THEN "stop"
                                             ELSE "returned"]
    /\ UNCHANGED Others

stop_observer ==
    /\ watcher.stop_pc = "stop"
    /\ watcher' = [watcher EXCEPT !.thread = IF @ = "alive" THEN "stopping" ELSE @,
                                  !.stop_pc = "join"]
    /\ UNCHANGED Others

stop_join ==
    /\ watcher.stop_pc = "join"
    /\ watcher.thread \notin { "alive", "stopping" }
    /\ watcher' = [watcher EXCEPT !.stop_pc = "clear"]
    /\ UNCHANGED Others

stop_clear ==
    /\ watcher.stop_pc = "clear"
    /\ watcher' = [watcher EXCEPT !.running = FALSE, !.stop_pc = "returned"]
    /\ UNCHANGED Others

\* The observer thread leaves its loop after it was asked to stop.
observer_exit ==
    /\ watcher.thread = "stopping"
    /\ watcher' = [watcher EXCEPT !.thread = "ended"]
    /\ UNCHANGED Others

Launched ==
    [observer |-> "None", running |-> FALSE, thread |-> "none",
     start_pc |-> "launched", stop_pc |-> "idle", late |-> FALSE]

InitStop ==
    /\ MONGO_URI = ""
    /\ InitCommon
    /\ hist = [on |-> FALSE, seq |-> <<>>]
    /\ twin = NoTwin
    /\ watcher = Launched
    /\ agent = NoAgent
    /\ frames = NoFrames

NextStop ==
    \/ start_makedirs \/ start_check \/ start_create
    \/ start_schedule \/ start_observer \/ start_running
    \/ stop_call \/ stop_check \/ stop_observer \/ stop_join \/ stop_clear
    \/ observer_exit
    \/ /\ Len(log) + 1 <= MaxStopLog
       /\ \E p \in GoodPaths : on_created(p, FALSE)

SpecStop == InitStop /\ [][NextStop]_vars

\* Moves of files and directories between the unfiltered paths and two filtered
\* names, with no remote store.
MovePaths == GoodPaths \cup { <<"/", "d", "~">>, <<"/", ".", "h">> }

NextMove ==
    /\ Len(log) + 2 <= MaxMoveLog
    /\ \E src \in MovePaths, dst \in MovePaths, d \in BOOLEAN : on_moved(src, dst, d)

SpecMove == Init /\ [][NextMove]_vars

\* Two runs of the watcher on the same notifications, file states, clock and
\* query plan: the first with the remote store reachable from start to end, the
\* second (twin) with that store unreachable from start to end.
TwinStart ==
    [Start EXCEPT !.log = twin.log, !.mongo_client = twin.mongo_client,
                  !.mongo_collection = twin.mongo_collection,
                  !.remote = twin.remote, !.handshakes = twin.handshakes]

TwinOf(st) ==
    [on |-> TRUE, log |-> st.log, mongo_client |-> st.mongo_client,
     mongo_collection |-> st.mongo_collection, remote |-> st.remote,
     handshakes |-> st.handshakes]

Both(a, b, kind, src, dst) ==
    /\ Dispatched(a)
    /\ Leave(a, kind, src, dst, FALSE)
    /\ twin' = TwinOf(b)
    /\ agent' = agent
    /\ frames' = frames

Up == "ok"

Down == "handshake_fail"

\* What get_latest_hash can return in both runs: the statement and its plan are
\* the same, and the tables differ at most in a column no index holds.
BothRead(p) == get_latest_hash(log, AbsPath(p)) \cap get_latest_hash(twin.log, AbsPath(p))

both_created(p) ==
    \E f \in FileObs :
        Both(ProcessEvent(Start, "created", p, FALSE, f, Null, Up),
             ProcessEvent(TwinStart, "created", p, FALSE, f, Null, Down),
             "created", p, NoPath)

both_modified(p) ==
    \E f \in FileObs, hb \in BothRead(p) :
        Both(ProcessEvent(Start, "modified", p, FALSE, f, hb, Up),
             ProcessEvent(TwinStart, "modified", p, FALSE, f, hb, Down),
             "modified", p, NoPath)

both_deleted(p) ==
    \E hb \in BothRead(p) :
        Both(ProcessEvent(Start, "deleted", p, FALSE, NoFile, hb, Up),
             ProcessEvent(TwinStart, "deleted", p, FALSE, NoFile, hb, Down),
             "deleted", p, NoPath)

both_moved(src, dst) ==
    /\ src # dst
    /\ \E f \in FileObs, hb \in BothRead(src) :
          Both(MovedResult(Start, src, dst, FALSE, f, hb, Up, Up),
               MovedResult(TwinStart, src, dst, FALSE, f, hb, Down, Down),
               "moved", src, dst)

InitPair ==
    /\ MONGO_URI = "mongodb://fim"
    /\ InitCommon
    /\ mongo_client # Null
    /\ hist = [on |-> FALSE, seq |-> <<>>]
    /\ watcher = Watching
    /\ agent = NoAgent
    /\ frames = NoFrames
    /\ twin = TwinOf(get_mongo_connection(
                         [MONGO_URI |-> MONGO_URI, mongo_client |-> Null,
                          mongo_collection |-> Null, conn |-> Null,
                          handshakes |-> 0, log |-> <<>>, remote |-> <<>>], Down))

NextPair ==
    \/ /\ Len(log) + 1 <= MaxPairLog
       /\ \/ \E p \in GoodPaths : both_created(p)
          \/ \E p \in GoodPaths : both_modified(p)
          \/ \E p \in GoodPaths : both_deleted(p)
    \/ /\ Len(log) + 2 <= MaxPairLog
       /\ \E src \in GoodPaths, dst \in GoodPaths : both_moved(src, dst)
    \/ Tick

SpecPair == InitPair /\ [][NextPair]_vars

\* The observer thread inside _process_event, statement by statement, with the
\* dashboard thread serving pages meanwhile; the one observer thread takes its
\* next notification when the handler of the last has returned.  All of it
\* happens within one second of the clock, so every row of a path ties for the
\* newest and get_latest_hash may return the hash of any of them.  The observer's frame holds what the
\* handler has read so far; interleaved records that a page was served between
\* the read of get_latest_hash and the insert.
MaxSerialLog == 2

\* Lines 60-62 and 68-69 of _process_event: the file is looked at and
\* get_latest_hash is read; the handler holds both in its locals.
process_event_read(event_type, p) ==
    /\ frames.observer.pc = "idle"
    /\ watcher.thread \in { "alive", "stopping" }
    /\ \E f \in ObsOf(p, FALSE), hb \in ReadsOf(p, FALSE) :
          frames' = [frames EXCEPT !.observer =
                        [pc |-> "read", event_type |-> event_type, src_path |-> p,
                         f |-> IF event_type = "deleted" THEN NoFile ELSE f,
                         hash_before |-> hb, interleaved |-> FALSE]]
    /\ UNCHANGED <<log, now, MONGO_URI, mongo_client, mongo_collection, remote,
                   last, prevLen, ops, hist, handshakes, twin, agent, watcher>>

\* The rest of the handler: the comparison of line 65, the row and insert_event,
\* on the table as it is now and with the hash read before.
process_event_insert ==
    /\ frames.observer.pc = "read"
    /\ LET fr == frames.observer
       IN  /\ \E r \in Outcomes :
                 LET st == ProcessEvent(Start, fr.event_type, fr.src_path, FALSE,
                                        fr.f, fr.hash_before, r)
                 IN  /\ Dispatched(st)
                     /\ Leave(st, fr.event_type, fr.src_path, NoPath, FALSE)
           /\ frames' = [frames EXCEPT !.observer.pc = "idle"]
    /\ twin' = twin
    /\ agent' = agent

\* A page of the dashboard that would write an event row of its own.
IndexWritesEvent ==
    /\ Len(log) < MaxSerialLog
    /\ \E p \in GoodPaths, f \in { g \in FileObs : g.isfile /\ g.content # Null } :
          log' = Append(log, [id |-> Len(log) + 1, synced_to_mongo |-> 0,
                              event_type |-> "created", file_path |-> AbsPath(p),
                              timestamp |-> now, endpoint |-> ENDPOINT_NAME,
                              hostname |-> Hostname, username |-> Username,
                              hash_before |-> Null, hash_after |-> compute_hash(f),
                              state_hash |-> Null, content_hash |-> Null])
    /\ frames' = [frames EXCEPT !.dashboard = [pc |-> "idle", shown |-> Len(log)],
                                !.observer = IF @.pc = "read"
                                             THEN [@ EXCEPT !.interleaved = TRUE]
                                             ELSE @]
    /\ UNCHANGED <<now, MONGO_URI, mongo_client, mongo_collection, remote,
                   last, prevLen, ops, hist, handshakes, twin, agent, watcher>>

\* index() of app.py on the Flask thread: one query of the newest 100 events; the
\* page shows the rows it got.  No route of app.py writes the events table.
index ==
    /\ \E page \in get_latest_events(log, 100, Null) :
          frames' = [frames EXCEPT !.dashboard = [pc |-> "idle", shown |-> Len(page)],
                                   !.observer = IF @.pc = "read"
                                                THEN [@ EXCEPT !.interleaved = TRUE]
                                                ELSE @]
    /\ UNCHANGED <<log, now, MONGO_URI, mongo_client, mongo_collection, remote,
                   last, prevLen, ops, hist, handshakes, twin, agent, watcher>>

NextSerial ==
    \/ /\ Len(log) < MaxSerialLog
       /\ \/ \E p \in GoodPaths : frames.observer.pc = "idle" /\ on_created(p, FALSE)
          \/ \E p \in GoodPaths : process_event_read("modified", p)
          \/ \E p \in GoodPaths : process_event_read("deleted", p)
    \/ process_event_insert
    \/ index

SpecSerial == Init /\ [][NextSerial]_vars

\* Two runs of the watcher on notification sequences that differ by one swap of
\* two adjacent notifications on distinct paths.  log is the first run, twin the
\* second; every notification observes the same file in both runs, and each
\* handler stamps its row with the clock reading of the moment it runs.  One
\* database engine serves both runs, so rows of one second are told apart the
\* same way in both: a backward scan of idx_timestamp returns the one of greatest
\* rowid, a sort of the matching rows returns the one of least rowid.
MaxSwapLog == 3

Plans == { "scan", "sort" }

\* The value get_latest_hash returns under a plan: one of get_latest_hash's values.
LatestHashBy(plan, rows, file_path) ==
    LET cand == HashedRows(rows, file_path)
        top  == { i \in cand : \A j \in cand : rows[j].timestamp <= rows[i].timestamp }
        row  == IF plan = "scan"
                THEN CHOOSE i \in top : \A j \in top : j <= i
                ELSE CHOOSE i \in top : \A j \in top : i <= j
    IN  IF cand = {} THEN Null ELSE rows[row].hash_after

Notifications ==
    { [event_type |-> k, src_path |-> p, f |-> IF k = "deleted" THEN NoFile ELSE f] :
        k \in { "created", "modified", "deleted" }, p \in GoodPaths, f \in FileObs }

\* _process_event for notification n on the table of st.
SwapRun(st, n) ==
    ProcessEvent(st, n.event_type, n.src_path, FALSE, n.f,
                 LatestHashBy(twin.plan, st.log, AbsPath(n.src_path)), "ok")

\* The first run handles na, the second nb; pending is what each has still to
\* handle of a swapped pair.
SwapStep(na, nb, pending) ==
    LET a == SwapRun(Start, na)
        b == SwapRun([Start EXCEPT !.log = twin.log], nb)
    IN  /\ Dispatched(a)
        /\ Leave(a, na.event_type, na.src_path, NoPath, FALSE)
        /\ twin' = [twin EXCEPT !.log = b.log, !.pending = pending]
        /\ agent' = agent
        /\ frames' = frames

\* A notification at the same place of both sequences.
swap_same(n) ==
    /\ twin.pending = <<>>
    /\ Len(log) < MaxSwapLog
    /\ Len(twin.log) < MaxSwapLog
    /\ SwapStep(n, n, <<>>)

\* The swapped pair: n1 then n2 in the first run, n2 then n1 in the second.
swap_first(n1, n2) ==
    /\ twin.pending = <<>>
    /\ ~twin.swapped
    /\ n1.src_path # n2.src_path
    /\ Len(log) + 2 <= MaxSwapLog
    /\ Len(twin.log) + 2 <= MaxSwapLog
    /\ SwapStep(n1, n2, <<n2, n1>>)

swap_second ==
    /\ twin.pending # <<>>
    /\ LET a == SwapRun(Start, twin.pending[1])
           b == SwapRun([Start EXCEPT !.log = twin.log], twin.pending[2])
       IN  /\ Dispatched(a)
           /\ Leave(a, twin.pending[1].event_type, twin.pending[1].src_path, NoPath, FALSE)
           /\ twin' = [twin EXCEPT !.log = b.log, !.pending = <<>>, !.swapped = TRUE]
           /\ agent' = agent
           /\ frames' = frames

InitSwap ==
    /\ MONGO_URI = ""
    /\ InitCommon
    /\ hist = [on |-> FALSE, seq |-> <<>>]
    /\ watcher = Watching
    /\ agent = NoAgent
    /\ frames = NoFrames
    /\ twin \in { [on |-> TRUE, log |-> <<>>, plan |-> plan, pending |-> <<>>,
                   swapped |-> FALSE] : plan \in Plans }

NextSwap ==
    \/ \E n \in Notifications : swap_same(n)
    \/ \E n1 \in Notifications, n2 \in Notifications : swap_first(n1, n2)
    \/ swap_second
    \/ Tick

SpecSwap == InitSwap /\ [][NextSwap]_vars

\* The watcher on files whose metadata changes too.  The observer's frame
\* remembers what the last notification of each path found on disk, its bytes
\* and its os.stat, so that a notification can be told to have found the bytes
\* unchanged (unchanged) and the metadata changed (touched).  _process_event
\* calls compute_hash only: neither get_file_metadata nor hash_state.
MaxMetaLog == 3

\* The file whose metadata is watched.
MetaPaths == { <<"/", "a">> }

Unseen == [content |-> Null, stat |-> CHOOSE s \in Stats : ~s.ok]

Found(f, s) == [content |-> IF f.isfile THEN f.content ELSE Null, stat |-> s]

meta_notification(event_type, p) ==
    \E f \in (IF event_type = "deleted" THEN { NoFile } ELSE FileObs),
       s \in (IF event_type = "deleted" THEN { Unseen.stat } ELSE Stats),
       hb \in ReadsOf(p, FALSE) :
          LET st == ProcessEvent(Start, event_type, p, FALSE, f,
                                 IF event_type = "created" THEN Null ELSE hb, "ok")
              before == frames.observer.seen[p]
          IN  /\ f.isfile = s.ok
              /\ Dispatched(st)
              /\ Leave(st, event_type, p, NoPath, FALSE)
              /\ twin' = twin
              /\ agent' = agent
              /\ frames' = [frames EXCEPT !.observer =
                              [pc |-> "idle",
                               seen |-> [frames.observer.seen EXCEPT ![p] = Found(f, s)],
                               unchanged |-> /\ Found(f, s).content # Null
                                             /\ Found(f, s).content = before.content,
                               touched |-> s # before.stat]]

InitMeta ==
    /\ MONGO_URI = ""
    /\ InitCommon
    /\ hist = [on |-> FALSE, seq |-> <<>>]
    /\ twin = NoTwin
    /\ watcher = Watching
    /\ agent = NoAgent
    /\ frames = [NoFrames EXCEPT !.observer =
                    [pc |-> "idle", seen |-> [p \in MetaPaths |-> Unseen],
                     unchanged |-> FALSE, touched |-> FALSE]]

NextMeta ==
    \/ /\ Len(log) < MaxMetaLog
       /\ \E p \in MetaPaths :
             \/ meta_notification("created", p)
             \/ meta_notification("modified", p)
             \/ meta_notification("deleted", p)
    \/ Tick

SpecMeta == InitMeta /\ [][NextMeta]_vars

\* get_mongo_connection statement by statement on two threads: the observer
\* thread, which calls it from send_event_to_mongo inside insert_event, and the
\* Flask thread, which calls it from is_mongo_connected.  The function takes no
\* lock.  main() has called it once before either thread exists, so the globals
\* start either connected or, the remote store having been down then, both None.
\* handshakes counts the MongoClient objects made since, failed records a
\* handshake that raised.
MaxRaceLog == 2
MaxRaceClients == 2

Threads == { "observer", "dashboard" }

Resting == [pc |-> "idle", result |-> Null]

At(t, pc) == frames[t].pc = pc

Goto(t, pc) == frames' = [frames EXCEPT ![t].pc = pc]

RaceRest == <<log, now, MONGO_URI, remote, last, prevLen, ops, hist, twin, agent, watcher>>

\* insert_event up to its call of send_event_to_mongo: the row is committed with
\* synced_to_mongo = 0 and the observer thread enters get_mongo_connection.
race_insert(p) ==
    /\ At("observer", "idle")
    /\ Len(log) < MaxRaceLog
    /\ handshakes < MaxRaceClients
    /\ \E f \in { g \in FileObs : compute_hash(g) # Null } :
          log' = Append(log, [id |-> Len(log) + 1, synced_to_mongo |-> 0,
                              event_type |-> "created", file_path |-> AbsPath(p),
                              timestamp |-> now, endpoint |-> ENDPOINT_NAME,
                              hostname |-> Hostname, username |-> Username,
                              hash_before |-> Null, hash_after |-> compute_hash(f),
                              state_hash |-> Null, content_hash |-> Null])
    /\ Goto("observer", "uri")
    /\ UNCHANGED <<now, MONGO_URI, mongo_client, mongo_collection, remote, last,
                   prevLen, ops, hist, handshakes, twin, agent, watcher>>

\* is_mongo_connected entered on the Flask thread.
status_call ==
    /\ At("dashboard", "idle")
    /\ handshakes < MaxRaceClients
    /\ Goto("dashboard", "uri")
    /\ UNCHANGED <<mongo_client, mongo_collection, handshakes>>
    /\ UNCHANGED RaceRest

\* Line 19: if not MONGO_URI: return None
gmc_uri(t) ==
    /\ At(t, "uri")
    /\ frames' = [frames EXCEPT ![t] = IF MONGO_URI = ""
                                       THEN [pc |-> "returned", result |-> Null]
                                       ELSE [pc |-> "check", result |-> Null]]
    /\ UNCHANGED <<mongo_client, mongo_collection, handshakes>>
    /\ UNCHANGED RaceRest

\* Line 22: if _mongo_client is None
gmc_check(t) ==
    /\ At(t, "check")
    /\ Goto(t, IF mongo_client = Null THEN "create" ELSE "return")
    /\ UNCHANGED <<mongo_client, mongo_collection, handshakes>>
    /\ UNCHANGED RaceRest

\* Lines 24-30: _mongo_client = MongoClient(...)
gmc_create(t) ==
    /\ At(t, "create")
    /\ mongo_client' = "client"
    /\ handshakes' = handshakes + 1
    /\ Goto(t, "ping")
    /\ UNCHANGED mongo_collection
    /\ UNCHANGED RaceRest

\* Line 31: _mongo_client.admin.command('ping'), on whatever the global holds
\* now; it raises when the server does not answer or the global is None again.
gmc_ping(t) ==
    /\ At(t, "ping")
    /\ \E r \in { "ok", "handshake_fail" } :
          Goto(t, IF r = "ok" /\ mongo_client # Null THEN "assign" ELSE "except")
    /\ UNCHANGED <<mongo_client, mongo_collection, handshakes>>
    /\ UNCHANGED RaceRest

\* Line 32: _mongo_collection = _mongo_client[MONGO_DB_NAME][MONGO_COLLECTION_NAME]
gmc_assign(t) ==
    /\ At(t, "assign")
    /\ IF mongo_client # Null
       THEN mongo_collection' = "collection" /\ Goto(t, "return")
       ELSE mongo_collection' = mongo_collection /\ Goto(t, "except")
    /\ UNCHANGED <<mongo_client, handshakes>>
    /\ UNCHANGED RaceRest

\* Lines 34-41: both globals are set to None.
gmc_except(t) ==
    /\ At(t, "except")
    /\ mongo_client' = Null
    /\ mongo_collection' = Null
    /\ frames' = [frames EXCEPT ![t].pc = "return", !.failed = TRUE]
    /\ UNCHANGED handshakes
    /\ UNCHANGED RaceRest

\* Line 43: return _mongo_collection
gmc_return(t) ==
    /\ At(t, "return")
    /\ frames' = [frames EXCEPT ![t] = [pc |-> "returned", result |-> mongo_collection]]
    /\ UNCHANGED <<mongo_client, mongo_collection, handshakes>>
    /\ UNCHANGED RaceRest

\* The rest of send_event_to_mongo and of insert_event on the observer thread:
\* with no collection the row stays unsynced; else insert_one and the UPDATE.
race_send ==
    /\ At("observer", "returned")
    /\ IF frames.observer.result = Null
       THEN UNCHANGED <<log, remote>>
       ELSE /\ remote' = Append(remote, MongoEvent(log[Len(log)]))
            /\ log' = mark_synced(log, Len(log))
    /\ frames' = [frames EXCEPT !.observer.pc = "idle"]
    /\ UNCHANGED <<now, MONGO_URI, mongo_client, mongo_collection, last, prevLen,
                   ops, hist, handshakes, twin, agent, watcher>>

\* is_mongo_connected returns whether it got a collection.
status_return ==
    /\ At("dashboard", "returned")
    /\ frames' = [frames EXCEPT !.dashboard.pc = "idle"]
    /\ UNCHANGED <<mongo_client, mongo_collection, handshakes>>
    /\ UNCHANGED RaceRest

InitRace ==
    /\ MONGO_URI = "mongodb://fim"
    /\ log = <<>>
    /\ now = 0
    /\ remote = <<>>
    /\ last = NoLast
    /\ prevLen = 0
    /\ ops = <<>>
    /\ handshakes = 0
    /\ \/ mongo_client = Null /\ mongo_collection = Null
       \/ mongo_client = "client" /\ mongo_collection = "collection"
    /\ hist = [on |-> FALSE, seq |-> <<>>]
    /\ twin = NoTwin
    /\ watcher = Watching
    /\ agent = NoAgent
    /\ frames = [observer |-> Resting, dashboard |-> Resting, failed |-> FALSE]

NextRace ==
    \/ \E p \in GoodPaths : race_insert(p)
    \/ status_call
    \/ \E t \in Threads :
          \/ gmc_uri(t)
          \/ gmc_check(t)
          \/ gmc_create(t)
          \/ gmc_ping(t)
          \/ gmc_assign(t)
          \/ gmc_except(t)
          \/ gmc_return(t)
    \/ race_send
    \/ status_return

SpecRace == InitRace /\ [][NextRace]_vars

\* One DirectoryWatcher whose start() and stop() are called one after the other,
\* each call running to its end before the next: a call is one step.  made counts
\* the Observer objects constructed, live the observer threads started and not
\* yet joined, calls the calls made; between calls the observer thread delivers
\* notifications while it is alive.
MaxLifeCalls == 4
MaxLifeLog == 2

Constructed ==
    [observer |-> "None", running |-> FALSE, thread |-> "none",
     start_pc |-> "done", stop_pc |-> "idle", late |-> FALSE,
     made |-> 0, live |-> 0, calls |-> 0]

Called(kind) ==
    /\ watcher.calls < MaxLifeCalls
    /\ last' = [kind |-> kind, src |-> NoPath, dst |-> NoPath, is_directory |-> FALSE]
    /\ UNCHANGED <<log, now, MONGO_URI, mongo_client, mongo_collection, remote,
                   prevLen, ops, hist, handshakes, twin, agent, frames>>

\* start() constructing and starting an Observer whatever self.running says.
LifeStartUnguarded ==
    /\ Called("start")
    /\ watcher' = [watcher EXCEPT !.observer = "Observer", !.thread = "alive",
                                  !.running = TRUE, !.made = @ + 1,
                                  !.live = @ + 1, !.calls = @ + 1]

\* DirectoryWatcher.start(): makedirs, the test of self.running, then Observer(),
\* schedule, observer.start() and self.running = True.
life_start ==
    /\ Called("start")
    /\ watcher' = IF watcher.running
                  THEN [watcher EXCEPT !.calls = @ + 1]
                  ELSE [watcher EXCEPT !.observer = "Observer", !.thread = "alive",
                                       !.running = TRUE, !.made = @ + 1,
                                       !.live = @ + 1, !.calls = @ + 1]

\* DirectoryWatcher.stop(): with an observer and running, observer.stop(),
\* observer.join() (which returns when the thread has ended), running = False.
life_stop ==
    /\ Called("stop")
    /\ watcher' = IF watcher.observer # "None" /\ watcher.running
                  THEN [watcher EXCEPT !.thread = "ended", !.running = FALSE,
                                       !.live = @ - 1, !.calls = @ + 1]
                  ELSE [watcher EXCEPT !.calls = @ + 1]

InitLife ==
    /\ MONGO_URI = ""
    /\ InitCommon
    /\ hist = [on |-> FALSE, seq |-> <<>>]
    /\ twin = NoTwin
    /\ watcher = Constructed
    /\ agent = NoAgent
    /\ frames = NoFrames

NextLife ==
    \/ life_start
    \/ life_stop
    \/ /\ Len(log) < MaxLifeLog
       /\ \/ \E p \in GoodPaths : on_created(p, FALSE)
          \/ \E p \in GoodPaths : on_deleted(p, FALSE)

SpecLife == InitLife /\ [][NextLife]_vars

\* ------------------------------------------- REFER/agent/calculate_hash.py
\* The reference agent.  It keeps two JSON files, hashes.json (the snapshot: path
\* to state) and hash_history.json (path to list of entries); every notification
\* loads both, and saves both when it changed something.  A Python dict is a
\* function on the keys it holds, None inside a JSON file is "null".
MaxRefHistory == 4
MaxRefSent == 2

RefPaths == GoodPaths \cup { <<"/", "d", "~">> }

\* is_temp_file of the agent: only names ending in "~".
ref_is_temp_file(path) == EndsWith(Basename(path), <<"~">>)

\* What a notification finds at the path: a directory, nothing, a file that
\* cannot be read, or a file with its bytes and its os.stat.
RefObs ==
    { [isdir |-> TRUE, exists |-> TRUE, readable |-> FALSE, content |-> Null,
       writable |-> FALSE],
      [isdir |-> FALSE, exists |-> FALSE, readable |-> FALSE, content |-> Null,
       writable |-> FALSE],
      [isdir |-> FALSE, exists |-> TRUE, readable |-> FALSE, content |-> Null,
       writable |-> FALSE] }
    \cup { [isdir |-> FALSE, exists |-> TRUE, readable |-> TRUE, content |-> c,
            writable |-> w] : c \in Contents, w \in BOOLEAN }

\* hash_state of the agent, with its get_file_metadata and hash_content, for a
\* readable file: the state dictionary with its digest.
ref_hash_state(path, o) ==
    LET meta == [size |-> 5, mtime |-> 0, ctime |-> 0, readonly |-> ~o.writable]
        content_hash == Sha256[o.content]
        state_obj == [path |-> AbsPath(path), content_hash |-> content_hash,
                      metadata |-> meta]
    IN  [path |-> state_obj.path, content_hash |-> content_hash, metadata |-> meta,
         state_hash |-> StateSha256(state_obj)]

\* d[k] = v on a dict.
Put(d, k, v) == [q \in DOMAIN d \cup { k } |-> IF q = k THEN v ELSE d[q]]

\* save_json: json.dump writes None as null (in the history, the hashes of a
\* deletion entry and its metadata).
save_json(obj, path) ==
    IF path = "hashes" THEN [exists |-> TRUE, json |-> obj]
    ELSE [exists |-> TRUE,
          json |-> [p \in DOMAIN obj |->
                     [i \in 1..Len(obj[p]) |->
                        LET e == obj[p][i]
                            state_hash == IF e.state_hash = Null THEN "null"
                                          ELSE e.state_hash
                            content_hash == IF e.content_hash = Null THEN "null"
                                            ELSE e.content_hash
                        IN  IF "event" \in DOMAIN e
                            THEN [timestamp |-> e.timestamp, state_hash |-> state_hash,
                                  content_hash |-> content_hash, metadata |-> "null",
                                  event |-> e.event]
                            ELSE [timestamp |-> e.timestamp, state_hash |-> state_hash,
                                  content_hash |-> content_hash,
                                  metadata |-> e.metadata]]]]

\* load_json: {} when the file does not exist, else json.load, null read as None.
load_json(ag, path) ==
    IF ~ag[path].exists THEN [k \in {} |-> k]
    ELSE IF path = "hashes" THEN ag[path].json
    ELSE [p \in DOMAIN ag[path].json |->
            [i \in 1..Len(ag[path].json[p]) |->
               LET j == ag[path].json[p][i]
                   state_hash == IF j.state_hash = "null" THEN Null ELSE j.state_hash
                   content_hash == IF j.content_hash = "null" THEN Null
                                   ELSE j.content_hash
               IN  IF "event" \in DOMAIN j
                   THEN [timestamp |-> j.timestamp, state_hash |-> state_hash,
                         content_hash |-> content_hash, metadata |-> Null,
                         event |-> j.event]
                   ELSE [timestamp |-> j.timestamp, state_hash |-> state_hash,
                         content_hash |-> content_hash, metadata |-> j.metadata]]]

\* append_history_entry (every entry holds the key state_hash, so .get reads it).
append_history_entry(state, history_db, timestamp) ==
    LET path == state.path
        entry == [timestamp |-> timestamp, state_hash |-> state.state_hash,
                  content_hash |-> state.content_hash, metadata |-> state.metadata]
    IN  IF path \notin DOMAIN history_db THEN Put(history_db, path, <<entry>>)
        ELSE IF history_db[path][Len(history_db[path])].state_hash = state.state_hash
        THEN history_db
        ELSE Put(history_db, path, Append(history_db[path], entry))

\* append_deletion_history without the test for a DELETED entry already last.
AppendDeletionAlways(path, history_db, timestamp) ==
    LET h == IF path \in DOMAIN history_db THEN history_db
             ELSE Put(history_db, path, <<>>)
    IN  Put(h, path, Append(h[path],
            [timestamp |-> timestamp, state_hash |-> Null, content_hash |-> Null,
             metadata |-> Null, event |-> "DELETED"]))

\* append_deletion_history (.get("event") is None on an entry without the key).
append_deletion_history(path, history_db, timestamp) ==
    LET h == IF path \in DOMAIN history_db THEN history_db
             ELSE Put(history_db, path, <<>>)
        last_entry == h[path][Len(h[path])]
    IN  IF h[path] # <<>> /\ "event" \in DOMAIN last_entry
                          /\ last_entry.event = "DELETED"
        THEN h
        ELSE Put(h, path, Append(h[path],
                [timestamp |-> timestamp, state_hash |-> Null, content_hash |-> Null,
                 metadata |-> Null, event |-> "DELETED"]))

\* FIMEventHandler._handle_file_change of the agent, on the files in ag: o is
\* what the path holds, r what the remote store does with the insert_one of
\* send_event_to_mongo, whose exception is swallowed.
handle_file_change(ag, path, event_type, o, r) ==
    IF o.isdir THEN ag
    ELSE
      LET abs_path == AbsPath(path)
          db == load_json(ag, "hashes")
          history_db == load_json(ag, "history")
      IN  IF event_type = "DELETED"
          THEN LET h2 == append_deletion_history(abs_path, history_db, now)
                   db2 == IF abs_path \in DOMAIN db
                          THEN [q \in DOMAIN db \ { abs_path } |-> db[q]]
                          ELSE db
                   event_doc == [timestamp |-> now, event_type |-> "DELETED",
                                 path |-> abs_path, state_hash |-> Null,
                                 content_hash |-> Null, metadata |-> Null,
                                 agent_id |-> AGENT_ID]
               IN  [hashes |-> save_json(db2, "hashes"),
                    history |-> save_json(h2, "history"),
                    sent |-> IF r = "ok" THEN Append(ag.sent, event_doc) ELSE ag.sent]
          ELSE IF ~o.exists THEN ag
          ELSE IF ~o.readable THEN ag
          ELSE LET current_state == ref_hash_state(abs_path, o)
               IN  IF abs_path \in DOMAIN db
                      /\ current_state.state_hash = db[abs_path].state_hash
                   THEN ag
                   ELSE [hashes |-> save_json(Put(db, abs_path, current_state),
                                              "hashes"),
                         history |-> save_json(
                             append_history_entry(current_state, history_db, now),
                             "history"),
                         sent |-> ag.sent]

\* A notification is taken while n more history entries and one more document
\* stay within the bounds.
Room(n) ==
    LET h == load_json(agent, "history")
    IN  /\ Cardinality(UNION { { <<p, i>> : i \in 1..Len(h[p]) } : p \in DOMAIN h })
              + n <= MaxRefHistory
        /\ Len(agent.sent) + 1 <= MaxRefSent

ref_on_created(p, d) ==
    /\ Room(1)
    /\ \E o \in RefObs :
          agent' = IF ~d /\ ~ref_is_temp_file(p)
                   THEN handle_file_change(agent, p, "CREATED", o, "ok")
                   ELSE agent
    /\ UNCHANGED <<log, now, MONGO_URI, mongo_client, mongo_collection, remote, last,
                   prevLen, ops, hist, handshakes, twin, watcher, frames>>

ref_on_modified(p, d) ==
    /\ Room(1)
    /\ \E o \in RefObs :
          agent' = IF ~d /\ ~ref_is_temp_file(p)
                   THEN handle_file_change(agent, p, "MODIFIED", o, "ok")
                   ELSE agent
    /\ UNCHANGED <<log, now, MONGO_URI, mongo_client, mongo_collection, remote, last,
                   prevLen, ops, hist, handshakes, twin, watcher, frames>>

ref_on_deleted(p, d) ==
    /\ Room(1)
    /\ \E o \in RefObs, r \in { "ok", "insert_fail" } :
          agent' = IF ~d /\ ~ref_is_temp_file(p)
                   THEN handle_file_change(agent, p, "DELETED", o, r)
                   ELSE agent
    /\ UNCHANGED <<log, now, MONGO_URI, mongo_client, mongo_collection, remote, last,
                   prevLen, ops, hist, handshakes, twin, watcher, frames>>

ref_on_moved(src, dst, d) ==
    /\ src # dst
    /\ Room(2)
    /\ \E o1 \in RefObs, o \in RefObs, r \in { "ok", "insert_fail" } :
          LET s1 == IF ~ref_is_temp_file(src)
                    THEN handle_file_change(agent, src, "DELETED", o1, r)
                    ELSE agent
              s2 == IF ~ref_is_temp_file(dst)
                    THEN handle_file_change(s1, dst, "CREATED", o, "ok")
                    ELSE s1
          IN  agent' = IF d THEN agent ELSE s2
    /\ UNCHANGED <<log, now, MONGO_URI, mongo_client, mongo_collection, remote, last,
                   prevLen, ops, hist, handshakes, twin, watcher, frames>>

NextRef ==
    \/ \E p \in RefPaths, d \in BOOLEAN : ref_on_created(p, d)
    \/ \E p \in RefPaths, d \in BOOLEAN : ref_on_modified(p, d)
    \/ \E p \in RefPaths, d \in BOOLEAN : ref_on_deleted(p, d)
    \/ \E src \in RefPaths, dst \in RefPaths, d \in BOOLEAN : ref_on_moved(src, dst, d)

\* The agent starts with neither file; its notifications all fall within one
\* second of the clock, which no branch of the handler reads.
SpecRef == Init /\ [][NextRef]_vars

\* ================================================================== claims
\* The events table before the last notification, and that notification's path.
Prev == SubSeq(log, 1, prevLen)

LastPath == AbsPath(last.src)

OpsIn(o, name) == { i \in 1..Len(o) : o[i].op = name }

OpsNamed(name) == OpsIn(ops, name)

\* Rows of a path, and the one a reader of the table calls its most recent:
\* greatest timestamp, ties broken by greatest id.
RowsOf(rows, file_path) == { i \in 1..Len(rows) : rows[i].file_path = file_path }

Newer(rows, i, j) ==
    \/ rows[i].timestamp > rows[j].timestamp
    \/ rows[i].timestamp = rows[j].timestamp /\ rows[i].id >= rows[j].id

MostRecent(rows, file_path) ==
    CHOOSE i \in RowsOf(rows, file_path) :
        \A j \in RowsOf(rows, file_path) : Newer(rows, i, j)

\* Consecutive rows of one path in (timestamp, id) order.
Consecutive(rows, i, j) ==
    /\ i # j
    /\ rows[i].file_path = rows[j].file_path
    /\ Newer(rows, j, i)
    /\ \A k \in RowsOf(rows, rows[i].file_path) :
          k = i \/ k = j \/ Newer(rows, i, k) \/ Newer(rows, k, j)

C2_Chaining ==
    \A i, j \in 1..Len(log) :
        Consecutive(log, i, j) => log[i].hash_after = log[j].hash_before

\* C3 (latest hash): get_latest_hash(p) is the hash_after, null included, of the
\* most recent row of p, and null when p has no row.
C3_LatestHash ==
    \A p \in GoodPaths :
        get_latest_hash(log, p) =
            IF RowsOf(log, p) = {} THEN { Null }
            ELSE { log[MostRecent(log, p)].hash_after }

C5_NullEnds ==
    \A i \in 1..Len(log) :
        /\ log[i].event_type = "created" => log[i].hash_before = Null
        /\ log[i].event_type = "deleted" => log[i].hash_after = Null

\* A created row with a digest and, on a path that had a digest, a deleted row.
C5_Witness ==
    \E i, j \in 1..Len(log) :
        /\ log[i].event_type = "created"
        /\ log[i].hash_after # Null
        /\ log[j].event_type = "deleted"
        /\ log[j].hash_before # Null

\* C6 (create, fingerprint failed): a create notification for a regular file whose
\* hash computation returns None appends no row, so every created row has a
\* non-null hash_after.
C6_CreateHashFailed ==
    /\ ( /\ last.kind = "created"
         /\ \E i \in OpsNamed("compute_hash") : ops[i].res = Null )
       => Len(log) = prevLen
    /\ \A i \in 1..Len(log) :
          log[i].event_type = "created" => log[i].hash_after # Null

\* C7 (modify, fingerprint failed): a modify notification whose hash computation
\* returns None appends no row, with or without a prior row of the path, so every
\* modified row has a non-null hash_after.
C7_ModifyHashFailed ==
    /\ ( /\ last.kind = "modified"
         /\ \E i \in OpsNamed("compute_hash") : ops[i].res = Null )
       => Len(log) = prevLen
    /\ \A i \in 1..Len(log) :
          log[i].event_type = "modified" => log[i].hash_after # Null

\* The names the filter is to reject, spelled out: filename ending in "~",
\* starting with ".", ending in .swp/.swo/.pyc/.pyo, or "__pycache__" in the path.
FilteredName(path) ==
    LET filename == Basename(path)
    IN  \/ EndsWith(filename, <<"~">>)
        \/ StartsWith(filename, <<".">>)
        \/ \E suffix \in { <<".", "s", "w", "p">>, <<".", "s", "w", "o">>,
                           <<".", "p", "y", "c">>, <<".", "p", "y", "o">> } :
              EndsWith(filename, suffix)
        \/ Contains(path, <<"_", "_", "p", "y", "c", "a", "c", "h", "e", "_", "_">>)

\* C8 (filtering): no row has a filtered name or comes from a directory
\* notification, and a rejected notification (or the rejected side of a move)
\* computes no hash and neither reads nor writes the table.
C8_Filtering ==
    /\ \A i \in 1..Len(log) : ~FilteredName(log[i].file_path)
    /\ last.is_directory => ops = <<>> /\ Len(log) = prevLen
    /\ ( last.kind \in { "created", "modified", "deleted" } /\ FilteredName(last.src) )
       => ops = <<>> /\ Len(log) = prevLen
    /\ ( last.kind = "moved" /\ FilteredName(last.src) )
       => /\ OpsNamed("get_latest_hash") = {}
          /\ \A i \in (prevLen + 1)..Len(log) : log[i].event_type # "deleted"
    /\ ( last.kind = "moved" /\ FilteredName(last.dst) )
       => /\ OpsNamed("isfile") = {} /\ OpsNamed("compute_hash") = {}
          /\ \A i \in (prevLen + 1)..Len(log) : log[i].event_type # "created"
    /\ ( last.kind = "moved" /\ FilteredName(last.src) /\ FilteredName(last.dst) )
       => ops = <<>> /\ Len(log) = prevLen

\* A move from a filtered name to an unfiltered file has been handled with rows in
\* the table: only the destination's row was added.
C8_Witness ==
    /\ last.kind = "moved"
    /\ ~last.is_directory
    /\ FilteredName(last.src)
    /\ ~FilteredName(last.dst)
    /\ prevLen >= 1
    /\ Len(log) = prevLen + 1

\* C9 (move decomposition): a file move between unfiltered paths whose destination
\* is a readable regular file appends exactly two rows, deleted at the source
\* (hash_after null, hash_before what get_latest_hash gave for the source) and then
\* created at the destination with a null hash_before, and changes no other row.
C9_MoveDecomposition ==
    [][ ( /\ now' = now
          /\ last'.kind = "moved"
          /\ ~last'.is_directory
          /\ ~FilteredName(last'.src)
          /\ ~FilteredName(last'.dst)
          /\ \E i \in OpsIn(ops', "isfile") : ops'[i].res = TRUE
          /\ \E i \in OpsIn(ops', "compute_hash") : ops'[i].res # Null )
        => /\ Len(log') = Len(log) + 2
           /\ SubSeq(log', 1, Len(log)) = log
           /\ LET del == log'[Len(log) + 1]
                  cre == log'[Len(log) + 2]
              IN  /\ del.event_type = "deleted"
                  /\ del.file_path = AbsPath(last'.src)
                  /\ del.hash_after = Null
                  /\ del.hash_before \in get_latest_hash(log, AbsPath(last'.src))
                  /\ cre.event_type = "created"
                  /\ cre.file_path = AbsPath(last'.dst)
                  /\ cre.hash_before = Null
                  /\ cre.hash_after \in Hashes
                  /\ del.id < cre.id
      ]_vars

\* A move has appended its two rows, the source having had a digest.
C9_Witness ==
    /\ last.kind = "moved"
    /\ Len(log) = prevLen + 2
    /\ log[prevLen + 1].event_type = "deleted"
    /\ log[prevLen + 1].hash_before # Null
    /\ log[prevLen + 2].event_type = "created"
    /\ log[prevLen + 2].hash_after # Null

\* The classifications of the last notification that were not suppressed, read
\* off what the handler saw (unfiltered files only).
Classified ==
    LET isfile == \E i \in OpsNamed("isfile") : ops[i].res = TRUE
        same == \E i \in OpsNamed("get_latest_hash"), j \in OpsNamed("compute_hash") :
                    ops[i].res = ops[j].res
    IN  CASE last.kind = "created" -> IF isfile THEN 1 ELSE 0
          [] last.kind = "modified" -> IF isfile /\ ~same THEN 1 ELSE 0
          [] last.kind = "deleted" -> 1
          [] last.kind = "moved" -> 1 + (IF isfile THEN 1 ELSE 0)
          [] OTHER -> 0

\* C10 (order and isolation of the append): every classification that is not
\* suppressed commits its row, then attempts the remote send, then insert_event
\* returns the new id, then the console alert is printed; a failed send changes
\* none of this and leaves the committed row unsynced.
C10_AppendOrder ==
    /\ Cardinality(OpsNamed("commit")) = Classified
    /\ Len(log) - prevLen = Classified
    /\ \A i \in OpsNamed("commit") :
          LET k == ops[i].res
              j == IF ops[i + 1].res THEN i + 3 ELSE i + 2
          IN  /\ k \in (prevLen + 1)..Len(log)
              /\ log[k].id = k
              /\ i + 1 <= Len(ops)
              /\ ops[i + 1].op = "send"
              /\ ops[i + 1].res => ops[i + 2].op = "mark_synced"
              /\ log[k].synced_to_mongo = (IF ops[i + 1].res THEN 1 ELSE 0)
              /\ j + 1 <= Len(ops)
              /\ ops[j].op = "return"
              /\ ops[j].res = k
              /\ ops[j + 1].op = "print_alert"
    /\ \A i \in OpsNamed("send") \cup OpsNamed("print_alert") \cup OpsNamed("return") :
          \E c \in OpsNamed("commit") : c < i /\ i <= c + 4
    /\ Cardinality(OpsNamed("send")) = Classified
    /\ Cardinality(OpsNamed("print_alert")) = Classified

\* With a remote store configured, a send failed (handshake or insert) and the row
\* is in the table, unsynced, and its alert printed.
C10_Witness ==
    /\ MONGO_URI # ""
    /\ \E i \in OpsNamed("send") :
          /\ ~ops[i].res
          /\ ops[i - 1].op = "commit"
          /\ log[ops[i - 1].res].synced_to_mongo = 0
          /\ ops[i + 2].op = "print_alert"
    /\ mongo_client # Null

\* C11 (sync flag): a row is appended unsynced and is marked synced only after the
\* one send made for it returned success; a row whose send failed stays unsynced
\* in every later step, and no step sends or marks a row appended by an earlier
\* step.
C11_SyncFlag ==
    [][ /\ Len(log') >= Len(log)
        /\ \A i \in 1..Len(log) :
              log[i].synced_to_mongo = 0 => log'[i].synced_to_mongo = 0
        /\ \A k \in (Len(log) + 1)..Len(log') :
              /\ log'[k].synced_to_mongo \in { 0, 1 }
              /\ \E c \in OpsIn(ops', "commit") :
                    /\ ops'[c].res = k
                    /\ ops'[c + 1].op = "send"
                    /\ log'[k].synced_to_mongo = 1 <=> ops'[c + 1].res
                    /\ log'[k].synced_to_mongo = 1 <=>
                          ( ops'[c + 2].op = "mark_synced" /\ ops'[c + 2].res = k )
        /\ now' = now =>
              /\ \A i \in OpsIn(ops', "mark_synced") : ops'[i].res > Len(log)
              /\ Cardinality(OpsIn(ops', "send")) = Len(log') - Len(log)
              /\ SubSeq(remote', 1, Len(remote)) = remote
              /\ Len(remote') - Len(remote) =
                    Cardinality({ k \in (Len(log) + 1)..Len(log') :
                                    log'[k].synced_to_mongo = 1 })
              /\ \A d \in (Len(remote) + 1)..Len(remote') :
                    \E k \in (Len(log) + 1)..Len(log') :
                        /\ log'[k].synced_to_mongo = 1
                        /\ remote'[d].path = log'[k].file_path
                        /\ remote'[d].event_type = log'[k].event_type
                        /\ remote'[d].timestamp = log'[k].timestamp
      ]_vars

\* With the remote store connected, the first row's send failed and the second
\* row's send succeeded: the first row is still unsynced.
C11_Witness ==
    /\ MONGO_URI # ""
    /\ mongo_client # Null
    /\ Len(log) = 2
    /\ log[1].synced_to_mongo = 0
    /\ log[2].synced_to_mongo = 1
    /\ Len(remote) = 1

\* C12 (memoized connection failure): the process attempts at most one handshake;
\* after a failed first attempt every later get_mongo_connection (from a send or
\* from the status pages) fails without a new attempt.
C12_MemoizedFailure ==
    /\ handshakes <= 1
    /\ \A i \in OpsNamed("send") \cup OpsNamed("is_mongo_connected") :
          ops[i].res => mongo_client # Null /\ handshakes = 1

\* A row without its synced flag.
Persisted(row) == [c \in DOMAIN row \ { "synced_to_mongo" } |-> row[c]]

\* The arguments the event queries are asked with.
EventTypes == { "created", "modified", "deleted" }
QueryLimits == (0 - 1)..MaxLimit
EventTypeSets == { {}, { "created" }, { "modified", "deleted" } }
SearchQueries == { <<>>, <<" ", "A">> }
SearchColumnSets == { {}, { "event_type", "id" } }

\* C13 (remote independence): two runs on the same notifications and file states,
\* one with the remote store configured and one with it unreachable throughout,
\* persist the same rows but for the synced flag; the unreachable run's rows are
\* all unsynced, and get_latest_hash and the event queries answer the same in
\* both runs.
C13_RemoteIndependence ==
    /\ Len(twin.log) = Len(log)
    /\ \A i \in 1..Len(log) :
          /\ Persisted(twin.log[i]) = Persisted(log[i])
          /\ twin.log[i].synced_to_mongo = 0
    /\ twin.remote = <<>>
    /\ \A p \in GoodPaths :
          get_latest_hash(twin.log, AbsPath(p)) = get_latest_hash(log, AbsPath(p))
    /\ \A limit \in QueryLimits :
          /\ \A event_type \in EventTypes \cup { Null, "all" } :
                get_latest_events(twin.log, limit, event_type)
                    = get_latest_events(log, limit, event_type)
          /\ \A event_types \in EventTypeSets, search_query \in SearchQueries,
                search_columns \in SearchColumnSets :
                get_latest_events_filtered(twin.log, limit, event_types,
                                           search_query, search_columns)
                    = get_latest_events_filtered(log, limit, event_types,
                                                 search_query, search_columns)

\* Both runs hold the same two rows, the second a modify that read the first; the
\* first run replicated both, the second none.
C13_Witness ==
    /\ twin.on
    /\ Len(log) = 2
    /\ Len(twin.log) = 2
    /\ log[1].synced_to_mongo = 1
    /\ log[2].synced_to_mongo = 1
    /\ log[2].event_type = "modified"
    /\ log[2].hash_before # Null
    /\ Len(remote) = 2

\* C14 (append-only log, frame of the synced mark): no step removes a row or
\* changes a row it did not append, a row it appends carries its position as id;
\* marking an id as synced sets the flag of the row of that id and changes
\* nothing else, and marking twice is marking once.
C14_AppendOnly ==
    [][ /\ Len(log') >= Len(log)
        /\ \A i \in 1..Len(log) : log'[i] = log[i]
        /\ \A k \in (Len(log) + 1)..Len(log') : log'[k].id = k
        /\ \A event_id \in 0..(Len(log') + 1) :
              LET marked == mark_synced(log', event_id)
              IN  /\ marked = IF event_id \in 1..Len(log')
                              THEN [log' EXCEPT ![event_id].synced_to_mongo = 1]
                              ELSE log'
                  /\ mark_synced(marked, event_id) = marked
      ]_vars

\* A step replicated and marked its row while the row of another path, replicated
\* by an earlier step, is in the table.
C14_Witness ==
    /\ Len(log) = 2
    /\ prevLen = 1
    /\ log[1].synced_to_mongo = 1
    /\ log[2].synced_to_mongo = 1
    /\ log[1].file_path # log[2].file_path
    /\ \E i \in OpsNamed("mark_synced") : ops[i].res = 2

\* C15 (store failure is local to one event): a notification during which the
\* local store raised persists nothing, and the observer thread lives on to
\* deliver the notifications that follow.
C15_StoreFailureLocal ==
    /\ OpsNamed("raise") # {} => Len(log) = prevLen
    /\ watcher.thread = "alive"

\* C16 (create scenario): a create notification for an unfiltered, readable
\* regular file on an empty table appends exactly one row, created, with a null
\* hash_before and as hash_after the state digest hash_state computes for the
\* file (path, content hash and metadata), not the digest of the content alone.
C16_CreateScenario ==
    \A c \in Contents :
        ( /\ last.kind = "created"
          /\ prevLen = 0
          /\ \E i \in OpsNamed("isfile") : ops[i].res = TRUE
          /\ \E i \in OpsNamed("compute_hash") : ops[i].res = Sha256[c] )
        => /\ Len(log) = 1
           /\ log[1].event_type = "created"
           /\ log[1].file_path = LastPath
           /\ log[1].hash_before = Null
           /\ \E s \in Stats :
                 log[1].hash_after =
                     hash_state(last.src, [isfile |-> TRUE, content |-> c], s).state_hash
           /\ log[1].hash_after # Sha256[c]

\* The first limit rows of M in the total order newest first, rows of one
\* timestamp by id descending.
FirstNewest(rows, M, limit) ==
    LET n == IF limit > Cardinality(M) THEN Cardinality(M) ELSE limit
        q == CHOOSE q \in [1..n -> M] :
                 /\ \A i, j \in 1..n : i < j => q[i] # q[j] /\ Newer(rows, q[i], q[j])
                 /\ \A k \in M : (\A i \in 1..n : q[i] # k) =>
                       \A i \in 1..n : Newer(rows, q[i], k)
    IN  [i \in 1..n |-> Event(rows[q[i]])]

\* C17 (query ordering): for every event-type set and limit, the event queries
\* return the first limit rows of the requested types in the order newest first
\* by timestamp, rows of one timestamp by id descending.
C17_QueryOrdering ==
    \A limit \in 0..MaxLimit :
        /\ \A event_types \in (SUBSET EventTypes) \ { {} } :
              get_latest_events_filtered(log, limit, event_types, <<>>, {})
                  = { FirstNewest(log, { i \in 1..Len(log) :
                                           log[i].event_type \in event_types }, limit) }
        /\ \A event_type \in EventTypes :
              get_latest_events(log, limit, event_type)
                  = { FirstNewest(log, { i \in 1..Len(log) :
                                           log[i].event_type = event_type }, limit) }

\* C18 (shutdown): once stop() has returned the observer thread neither runs nor
\* is about to deliver, and no notification is processed after that return,
\* however the steps of start() and stop() interleave.
C18_Shutdown ==
    watcher.stop_pc = "returned"
        => /\ watcher.thread \notin { "alive", "stopping" }
           /\ ~watcher.late

\* C19 (modify in the UNKNOWN state): a modify notification for a readable file
\* whose path has no row, or whose most recent row is deleted, appends a modified
\* row with a null hash_before and the new digest as hash_after, also when that
\* digest is the one the path had before the deletion.
C19_ModifyUnknown ==
    \A h \in Hashes :
        ( /\ last.kind = "modified"
          /\ \E i \in OpsNamed("compute_hash") : ops[i].res = h
          /\ \/ RowsOf(Prev, LastPath) = {}
             \/ Prev[MostRecent(Prev, LastPath)].event_type = "deleted" )
        => /\ Len(log) = prevLen + 1
           /\ log[Len(log)].event_type = "modified"
           /\ log[Len(log)].file_path = LastPath
           /\ log[Len(log)].hash_before = Null
           /\ log[Len(log)].hash_after = h

\* C20 (create always re-asserts): a create notification for an unfiltered,
\* readable regular file appends a created row with a null hash_before and the
\* new hash, whatever rows the path has, and without reading the table.
C20_CreateReasserts ==
    \A h \in Hashes :
        ( /\ last.kind = "created"
          /\ \E i \in OpsNamed("isfile") : ops[i].res = TRUE
          /\ \E i \in OpsNamed("compute_hash") : ops[i].res = h )
        => /\ Len(log) = prevLen + 1
           /\ log[Len(log)].event_type = "created"
           /\ log[Len(log)].file_path = LastPath
           /\ log[Len(log)].hash_before = Null
           /\ log[Len(log)].hash_after = h
           /\ OpsNamed("get_latest_hash") = {}

\* A create notification found the file with the hash the path's most recent row
\* already holds, and its row was appended.
C20_Witness ==
    /\ last.kind = "created"
    /\ RowsOf(Prev, LastPath) # {}
    /\ Len(log) = prevLen + 1
    /\ log[Len(log)].hash_after # Null
    /\ Prev[MostRecent(Prev, LastPath)].hash_after = log[Len(log)].hash_after

\* The rows the last notification appended.
Appended == { i \in 1..Len(log) : i > prevLen }

\* C21 (move sides are independent): a file move from a filtered name to an
\* unfiltered path appends only a created row at the destination (one, when the
\* destination is a readable file); from an unfiltered path to a filtered name
\* only one deleted row at the source; with both names filtered, or for a
\* directory, nothing; and when the destination is not a regular file only the
\* deleted row at the source.
C21_MoveSides ==
    LET isfile == \E i \in OpsNamed("isfile") : ops[i].res = TRUE
        readable == \E i \in OpsNamed("compute_hash") : ops[i].res # Null
        OnlyCreated == \A i \in Appended :
                          /\ log[i].event_type = "created"
                          /\ log[i].file_path = AbsPath(last.dst)
        OnlyDeleted == /\ Len(log) = prevLen + 1
                       /\ log[Len(log)].event_type = "deleted"
                       /\ log[Len(log)].file_path = AbsPath(last.src)
    IN  last.kind = "moved" =>
          /\ last.is_directory => Appended = {}
          /\ ( ~last.is_directory /\ FilteredName(last.src) /\ FilteredName(last.dst) )
                => Appended = {}
          /\ ( ~last.is_directory /\ FilteredName(last.src) /\ ~FilteredName(last.dst) )
                => /\ OnlyCreated
                   /\ Cardinality(Appended) <= 1
                   /\ (isfile /\ readable) => Cardinality(Appended) = 1
                   /\ ~isfile => Appended = {}
          /\ ( ~last.is_directory /\ ~FilteredName(last.src) /\ FilteredName(last.dst) )
                => OnlyDeleted
          /\ ( ~last.is_directory /\ ~FilteredName(last.src) /\ ~FilteredName(last.dst)
                /\ ~isfile )
                => OnlyDeleted

\* A move between two unfiltered paths found no regular file at the destination,
\* after a move from a filtered name had left its created row.
C21_Witness ==
    /\ last.kind = "moved"
    /\ ~last.is_directory
    /\ ~FilteredName(last.src)
    /\ ~FilteredName(last.dst)
    /\ \E i \in OpsNamed("isfile") : ops[i].res = FALSE
    /\ prevLen = 1
    /\ log[1].event_type = "created"
    /\ Len(log) = 2
    /\ log[2].event_type = "deleted"

\* C22 (no no-op modified row): every modified row has a hash_before different
\* from its hash_after.
C22_NoNoopModified ==
    \A i \in 1..Len(log) :
        log[i].event_type = "modified" => log[i].hash_before # log[i].hash_after

\* A modified row with two digests is in the table and the last modify
\* notification, finding the hash the table gave, appended nothing.
C22_Witness ==
    /\ \E i \in 1..Len(log) :
          /\ log[i].event_type = "modified"
          /\ log[i].hash_before # Null
          /\ log[i].hash_after # Null
    /\ last.kind = "modified"
    /\ Len(log) = prevLen
    /\ \E i \in OpsNamed("get_latest_hash"), j \in OpsNamed("compute_hash") :
          ops[i].res = ops[j].res /\ ops[j].res # Null

\* C23 (serialized read-then-append): while a notification holds the hash it read
\* from get_latest_hash and has not inserted yet, the events table does not
\* change; and the modified or deleted row it then appends has as hash_before a
\* value of get_latest_hash(path) on the table as it was immediately before the
\* append.
C23_SerializedReadAppend ==
    [][/\ (frames.observer.pc = "read" /\ frames'.observer.pc = "read") => log' = log
       /\ (frames.observer.pc = "read" /\ frames'.observer.pc = "idle"
              /\ Len(log') = Len(log) + 1
              /\ log'[Len(log')].event_type \in { "modified", "deleted" })
          => /\ log'[Len(log')].hash_before
                    \in get_latest_hash(log, AbsPath(frames.observer.src_path))
             /\ log'[Len(log')].hash_before = frames.observer.hash_before
             /\ SubSeq(log', 1, Len(log)) = log]_vars

C23_Witness ==
    /\ frames.observer.pc = "idle"
    /\ last.kind = "modified"
    /\ Len(log) = prevLen + 1
    /\ log[Len(log)].event_type = "modified"
    /\ log[Len(log)].hash_before # Null
    /\ "interleaved" \in DOMAIN frames.observer
    /\ frames.observer.interleaved
    /\ frames.dashboard.pc = "idle"
    /\ "shown" \in DOMAIN frames.dashboard
    /\ frames.dashboard.shown = prevLen

\* The persisted (event_type, hash_before, hash_after) of the rows of a path, in
\* the order of their ids.
Triple(row) ==
    [event_type |-> row.event_type, hash_before |-> row.hash_before,
     hash_after |-> row.hash_after]

OfPath(rows, file_path) ==
    LET own == SelectSeq(rows, LAMBDA row : row.file_path = file_path)
    IN  [i \in 1..Len(own) |-> Triple(own[i])]

C25_RepeatDelete ==
    (last.kind = "deleted" /\ ~last.is_directory /\ ~is_temp_file(last.src))
        => /\ Len(log) = prevLen + 1
           /\ log[Len(log)].event_type = "deleted"
           /\ log[Len(log)].file_path = LastPath
           /\ log[Len(log)].hash_after = Null
           /\ RowsOf(Prev, LastPath) = {} => log[Len(log)].hash_before = Null
           /\ \E i \in OpsNamed("commit") : ops[i].res = Len(log)

\* Three delete notifications in a row for a path without an earlier row: three
\* DELETED rows, the first with hash_before null.
C25_Witness ==
    /\ last.kind = "deleted"
    /\ Len(log) = 3
    /\ prevLen = 2
    /\ \A i \in 1..3 : log[i].event_type = "deleted" /\ log[i].file_path = LastPath
    /\ log[1].hash_before = Null

Origins ==
    { m \in [1..Len(remote) -> 1..Len(log)] :
        /\ \A d \in 1..Len(remote) : remote[d] = MongoEvent(log[m[d]])
        /\ \A d, e \in 1..Len(remote) : m[d] = m[e] => d = e }

\* C27 (at-most-once replication after commit): every document of the remote
\* store is the document of one committed row, no row has two documents, and
\* every row with synced_to_mongo = 1 has its document.
C27_AtMostOnce ==
    /\ Len(remote) <= Len(log)
    /\ \E m \in Origins :
          \A i \in 1..Len(log) :
              log[i].synced_to_mongo = 1 => \E d \in 1..Len(remote) : m[d] = i

\* Two deletions of one path in one second, the first replicated and the second
\* not: one document for two equal rows.
C27_Witness ==
    /\ MONGO_URI # ""
    /\ Len(log) = 2
    /\ Len(remote) = 1
    /\ log[1].synced_to_mongo = 1
    /\ log[2].synced_to_mongo = 0
    /\ MongoEvent(log[1]) = MongoEvent(log[2])
    /\ remote[1] = MongoEvent(log[1])

\* C28 (singleton connection under two threads): while no handshake fails, the
\* calls of get_mongo_connection made by the observer thread and by the Flask
\* thread create at most one MongoClient between them, in every interleaving.
C28_Singleton ==
    ~frames.failed => handshakes <= 1

\* C29 (no spurious "not connected"): while no handshake has failed, no call of
\* get_mongo_connection has returned None, and no row whose send is over is left
\* with synced_to_mongo = 0.
C29_NoSpuriousNone ==
    ~frames.failed =>
        /\ \A t \in Threads : At(t, "returned") => frames[t].result # Null
        /\ \A i \in 1..Len(log) :
              (i < Len(log) \/ At("observer", "idle")) => log[i].synced_to_mongo = 1

\* What start() and stop() can change of the watcher.
Lifecycle(w) == <<w.observer, w.running, w.thread, w.made, w.live>>

\* C30 (watcher lifecycle, sequential calls): running implies an observer that
\* exists and was started; start() while running constructs no observer and
\* changes nothing; stop() while not running changes nothing; stop() while
\* running stops and joins the observer and clears running; start() while not
\* running constructs a fresh observer and starts it; and at most one observer
\* thread is active at any time.
C30_Lifecycle ==
    [][ /\ watcher'.running => watcher'.observer # "None" /\ watcher'.thread = "alive"
        /\ watcher'.live <= 1
        /\ watcher'.live = 1 <=> watcher'.thread = "alive"
        /\ watcher'.calls # watcher.calls =>
              /\ log' = log
              /\ (last'.kind = "start" /\ watcher.running)
                    => Lifecycle(watcher') = Lifecycle(watcher)
              /\ (last'.kind = "stop" /\ ~watcher.running)
                    => Lifecycle(watcher') = Lifecycle(watcher)
              /\ (last'.kind = "stop" /\ watcher.running)
                    => /\ watcher'.thread = "ended"
                       /\ ~watcher'.running
                       /\ watcher'.live = 0
                       /\ watcher'.made = watcher.made
              /\ (last'.kind = "start" /\ ~watcher.running)
                    => /\ watcher'.made = watcher.made + 1
                       /\ watcher'.running
                       /\ watcher'.thread = "alive"
                       /\ watcher'.live = 1
      ]_vars

\* start(), start() again, stop(), then start(): the second observer is running
\* and the only one alive.
C30_Witness ==
    /\ "calls" \in DOMAIN watcher
    /\ watcher.calls = 4
    /\ watcher.made = 2
    /\ watcher.live = 1
    /\ watcher.running
    /\ last.kind = "start"

\* The history of a path as the next notification would load it.
RefHistory(p) ==
    LET history_db == load_json(agent, "history")
    IN  IF p \in DOMAIN history_db THEN history_db[p] ELSE <<>>

IsDeleted(e) == "event" \in DOMAIN e /\ e.event = "DELETED"

\* C31: after any sequence of create, modify, delete and move notifications
\* handled by the reference agent, no history holds two consecutive entries with
\* the same state_hash or two consecutive DELETED entries; a path is in the
\* snapshot exactly when its history is non-empty and does not end in DELETED,
\* and the snapshot's state_hash is then the last entry's state_hash.
C31_RefHistory ==
    \A p \in RefPaths :
        LET h == RefHistory(p)
            db == load_json(agent, "hashes")
        IN  /\ \A i \in 1..(Len(h) - 1) :
                  /\ h[i].state_hash # h[i + 1].state_hash
                  /\ ~(IsDeleted(h[i]) /\ IsDeleted(h[i + 1]))
            /\ p \in DOMAIN db <=> (h # <<>> /\ ~IsDeleted(h[Len(h)]))
            /\ p \in DOMAIN db => db[p].state_hash = h[Len(h)].state_hash

\* A file was recorded, deleted and recorded again in the state it had before.
C31_Witness ==
    \E p \in RefPaths :
        LET h == RefHistory(p)
        IN  /\ Len(h) = 3
            /\ IsDeleted(h[2])
            /\ h[1].state_hash = h[3].state_hash
            /\ p \in DOMAIN load_json(agent, "hashes")
            /\ Len(agent.sent) > 0

====
